---------------------------- MODULE Spec2Model ----------------------------
(***************************************************************************)
(* Verification model of the NASASA satellite tracker:                     *)
(*   satellite_tracker/utils.py   parse_and_get_value, altitude_to_mean_   *)
(*                                motion                                   *)
(*   satellite_tracker/orbit.py   _altitude_to_mean_motion,                *)
(*                                calculate_orbit_congestion_by_altitude   *)
(*   utils/risk_calculator.py     the two collision-risk estimators        *)
(*   api/routes/risk.py           the /orbit_risk and /takeoff_risk        *)
(*                                handlers                                 *)
(*   satellite_tracker/tle_importer.py                                     *)
(*                                get_all_trackable_objects                *)
(*                                                                         *)
(* Numbers.  Python floats are modelled as the IEEE 754 doubles they are:  *)
(* <<s, M, E>> stands for s * M * 2^E, and +, -, *, /, math.sqrt, float()  *)
(* and round() give the double the interpreter gives, bit for bit.  x ** 3 *)
(* and math.exp(x) are the C library's pow and exp, which are not          *)
(* correctly rounded: where the exact value lies close to the middle of    *)
(* two doubles the library in use decides which of the two comes out, so   *)
(* these two have a set of outcomes, and so has everything computed from   *)
(* them.  Strings are sequences of one-character strings.                  *)
(***************************************************************************)
EXTENDS Integers, Sequences, FiniteSets, TLC

VARIABLES
    \* ---- parse_and_get_value (utils.py)
    line, start, end, dec_pc, dec_result,
    \* ---- altitude converters (utils.py, orbit.py)
    cv_altitude, cv_which, cv_pc, cv_result,
    \* ---- calculate_orbit_congestion_by_altitude (orbit.py)
    tle_data_dicts, window, agg_pc, agg_idx, filters, congestion_map, agg_return,
    \* ---- risk estimators (risk_calculator.py)
    risk_mode, risk_args, risk_pc, risk_locals, risk_return,
    \* ---- HTTP handlers (api/routes/risk.py)
    request, all_objects, api_pc, response,
    \* ---- get_all_trackable_objects (satellite_tracker/tle_importer.py)
    clock, cache_file, net_gen, calls

decVars  == <<line, start, end, dec_pc, dec_result>>
cvVars   == <<cv_altitude, cv_which, cv_pc, cv_result>>
aggVars  == <<tle_data_dicts, window, agg_pc, agg_idx, filters, congestion_map, agg_return>>
riskVars == <<risk_mode, risk_args, risk_pc, risk_locals, risk_return>>
apiVars  == <<request, all_objects, api_pc, response>>
cacheVars == <<clock, cache_file, net_gen, calls>>
vars     == <<decVars, cvVars, aggVars, riskVars, apiVars, cacheVars>>

-----------------------------------------------------------------------------
(* Bounds of the model.                                                    *)

\* longest element line the decoder is given (besides the fixtures)
MaxLen == 4
\* columns range over -MaxCol .. MaxLen + MaxCol
MaxCol == 1
\* longest batch of records handed to the aggregator
MaxBatch == 3
\* longest batch of records the HTTP handlers fetch
MaxApiBatch == 2
\* altitudes given to the converters: AltStep * (-MaxAltSteps .. MaxAltSteps)
MaxAltSteps == 30

-----------------------------------------------------------------------------
Abs(x) == IF x < 0 THEN -x ELSE x
Sgn(x) == IF x < 0 THEN -1 ELSE IF x > 0 THEN 1 ELSE 0
Min(a, b) == IF a <= b THEN a ELSE b
Max(a, b) == IF a >= b THEN a ELSE b

-----------------------------------------------------------------------------
(* Natural numbers of any size: the sequence of the limbs, least           *)
(* significant first, in base 2^14, the last limb not 0; <<>> is 0.        *)

LimbBase == 2^14
RECURSIVE BitLen(_)
BitLen(x) == IF x = 0 THEN 0 ELSE 1 + BitLen(x \div 2)
LimbBits == BitLen(LimbBase) - 1
Limb(a, i) == IF i < 1 \/ i > Len(a) THEN 0 ELSE a[i]
\* the function f on 1..n as a sequence
Limbs(f) == SubSeq(f, 1, Len(f))
\* the index of the last limb of a that is not 0 (0 if there is none)
LastLimb(a) ==
    CHOOSE k \in 0..Len(a) :
        (k = 0 \/ a[k] # 0) /\ \A j \in (k + 1)..Len(a) : a[j] = 0
BTrim(a) == SubSeq(a, 1, LastLimb(a))
RECURSIVE BigOfInt(_)
BigOfInt(n) == IF n = 0 THEN <<>> ELSE <<n % LimbBase>> \o BigOfInt(n \div LimbBase)

\* the columns c[i..j] with the carry coming in, as limbs, then the carry
\* going out
RECURSIVE CarryRun(_, _, _, _)
CarryRun(c, i, j, carry) ==
    IF i > j THEN <<carry>>
    ELSE <<(c[i] + carry) % LimbBase>>
         \o CarryRun(c, i + 1, j, (c[i] + carry) \div LimbBase)
\* the number whose columns are c (any integers, the sum not negative), in
\* runs of eight columns
RECURSIVE BCarry(_, _, _)
CarryJoin(c, j, run) ==
    SubSeq(run, 1, Len(run) - 1) \o BCarry(c, j + 1, run[Len(run)])
BCarry(c, i, carry) ==
    IF i > Len(c) THEN BigOfInt(carry)
    ELSE CarryJoin(c, Min(i + 7, Len(c)), CarryRun(c, i, Min(i + 7, Len(c)), carry))
Carried(c) == BCarry(Limbs(c), 1, 0)

BAdd(a, b) == Carried([i \in 1..Max(Len(a), Len(b)) |-> Limb(a, i) + Limb(b, i)])
\* a - b, for a >= b
BSub(a, b) == BTrim(Carried([i \in 1..Len(a) |-> a[i] - Limb(b, i)]))
RECURSIVE CmpAt(_, _, _)
CmpAt(a, b, i) ==
    IF i = 0 THEN 0
    ELSE IF a[i] # b[i] THEN (IF a[i] < b[i] THEN -1 ELSE 1)
    ELSE CmpAt(a, b, i - 1)
\* -1, 0, 1 as a < b, a = b, a > b
BCmp(a, b) ==
    IF Len(a) # Len(b) THEN (IF Len(a) < Len(b) THEN -1 ELSE 1)
    ELSE CmpAt(a, b, Len(a))
RECURSIVE ColSum(_, _, _, _, _)
ColSum(a, b, k, i, hi) ==
    IF i > hi THEN 0 ELSE a[i] * b[k + 1 - i] + ColSum(a, b, k, i + 1, hi)
\* a * b, one of them of eight limbs at most
BMul(a, b) ==
    IF Len(a) = 0 \/ Len(b) = 0 THEN <<>>
    ELSE Carried([k \in 1..(Len(a) + Len(b) - 1) |->
                     ColSum(a, b, k, Max(1, k + 1 - Len(b)), Min(Len(a), k))])
\* a * k, k below 2^17
BMulSmall(a, k) == BTrim(Carried([i \in 1..Len(a) |-> a[i] * k]))
Reversed(s) == Limbs([i \in 1..Len(s) |-> s[Len(s) + 1 - i]])
\* the limbs of a \div k from the i-th down, then the remainder
RECURSIVE DivSmallAt(_, _, _, _)
DivSmallAt(a, k, i, r) ==
    IF i = 0 THEN <<r>>
    ELSE <<(r * LimbBase + a[i]) \div k>>
         \o DivSmallAt(a, k, i - 1, (r * LimbBase + a[i]) % k)
BBits(a) == IF Len(a) = 0 THEN 0 ELSE LimbBits * (Len(a) - 1) + BitLen(a[Len(a)])
\* a \div 2^(LimbBits q + r)
ShrLimbs(a, q, r) ==
    BTrim([i \in 1..Max(0, Len(a) - q) |->
              (a[i + q] \div 2^r) + (Limb(a, i + q + 1) % 2^r) * 2^(LimbBits - r)])
BShr(a, s) == ShrLimbs(a, s \div LimbBits, s % LimbBits)
\* a * 2^(LimbBits q + r)
ShlLimbs(a, q, r) ==
    BTrim([i \in 1..(Len(a) + q + 1) |->
              (Limb(a, i - q) % 2^(LimbBits - r)) * 2^r
              + (Limb(a, i - q - 1) \div 2^(LimbBits - r))])
BShl(a, s) ==
    IF Len(a) = 0 THEN <<>> ELSE ShlLimbs(a, s \div LimbBits, s % LimbBits)
\* bit n of a
BBit(a, n) == (Limb(a, n \div LimbBits + 1) \div 2^(n % LimbBits)) % 2
\* the bits 0 .. s-1 of a are all 0
BLowZero(a, s) ==
    /\ \A i \in 1..Min(s \div LimbBits, Len(a)) : a[i] = 0
    /\ Limb(a, s \div LimbBits + 1) % 2^(s % LimbBits) = 0
RECURSIVE TrailingZeros(_)
TrailingZeros(x) == IF x % 2 = 1 THEN 0 ELSE 1 + TrailingZeros(x \div 2)
RECURSIVE ZeroLimbs(_, _)
ZeroLimbs(a, i) == IF a[i] # 0 THEN 0 ELSE 1 + ZeroLimbs(a, i + 1)
LowZeros(a, z) == LimbBits * z + TrailingZeros(a[z + 1])
\* how many low bits of a # 0 are 0
BTrailing(a) == LowZeros(a, ZeroLimbs(a, 1))

\* long division by b of two limbs or more, its last limb 2^13 or more: the
\* digit of the quotient that R (below b * 2^14) holds
RECURSIVE QFix(_, _, _)
QFix(R, b, q) == IF BCmp(BMulSmall(b, q), R) > 0 THEN QFix(R, b, q - 1) ELSE q
QDigit(R, b) ==
    QFix(R, b, Min(LimbBase - 1,
                   (Limb(R, Len(b) + 1) * LimbBase + Limb(R, Len(b))) \div b[Len(b)]))
\* the limbs of the quotient from the i-th down, then the remainder
RECURSIVE DivLoop(_, _, _, _)
DivDigit(a, b, i, R1, qd) ==
    <<qd>> \o DivLoop(a, b, i - 1, BSub(R1, BMulSmall(b, qd)))
DivStep(a, b, i, R1) == DivDigit(a, b, i, R1, QDigit(R1, b))
DivLoop(a, b, i, R) ==
    IF i = 0 THEN <<R>> ELSE DivStep(a, b, i, BTrim(<<a[i]>> \o R))
\* <<a \div b, whether b divides a>>, from the limbs and the remainder
Quotient(res, rem) ==
    <<BTrim(Reversed(SubSeq(res, 1, Len(res) - 1))), rem = res[Len(res)]>>
DivLong(a, b) ==
    IF Len(a) < Len(b) THEN <<<<>>, Len(a) = 0>>
    ELSE Quotient(DivLoop(a, b, Len(a) - Len(b) + 1,
                          BTrim(SubSeq(a, Len(a) - Len(b) + 2, Len(a)))), <<>>)
DivNorm(a, b, t) == DivLong(BShl(a, t), BShl(b, t))
BDiv(a, b) ==
    IF Len(b) = 1 THEN Quotient(DivSmallAt(a, b[1], Len(a), 0), 0)
    ELSE DivNorm(a, b, LimbBits - BitLen(b[Len(b)]))
\* a \div k, k below 2^17
BDivSmall(a, k) == Quotient(DivSmallAt(a, k, Len(a), 0), 0)[1]

-----------------------------------------------------------------------------
(* Python floats: the IEEE 754 doubles.  <<s, M, E>> is s * M * 2^E with   *)
(* s the sign, M odd and below 2^53, E from -1074 to 1023; 0.0 is          *)
(* <<0, <<>>, 0>> and -0.0 is <<0, <<>>, -1>>; the infinities and nan have *)
(* the exponent InfExp.                                                    *)

InfExp == 2^12
Zero == <<0, <<>>, 0>>
NegZero == <<0, <<>>, 0 - 1>>
One == <<1, <<1>>, 0>>
PosInf == <<1, <<>>, InfExp>>
NegInf == <<-1, <<>>, InfExp>>
NaN == <<0, <<>>, InfExp>>
IsNaN(a) == a = NaN
IsInf(a) == a[1] # 0 /\ a[3] = InfExp
IsFinite(a) == a[3] < InfExp
\* 0.0 or -0.0: the two are equal in every comparison
IsZero(a) == a[1] = 0 /\ a[3] < InfExp
\* the sign bit as -1 or 1
SignOf(a) == IF a[1] < 0 \/ a = NegZero THEN -1 ELSE 1
SignedInf(s) == IF s < 0 THEN NegInf ELSE PosInf
SignedZero(s) == IF s < 0 THEN NegZero ELSE Zero
FNeg(a) ==
    IF IsZero(a) THEN SignedZero(0 - SignOf(a)) ELSE <<0 - a[1], a[2], a[3]>>
FAbs(a) == IF IsZero(a) THEN Zero ELSE <<Abs(a[1]), a[2], a[3]>>
\* one more than the exponent of the leading bit
Top(a) == BBits(a[2]) + a[3]

\* s * M * 2^E (M # 0) with M made odd
Odd(s, M, E, tz) == <<s, BShr(M, tz), E + tz>>
\* s * M * 2^E, M of 53 bits at most and E >= -1074, as a double
Canon(s, M, E) ==
    IF Len(M) = 0 THEN SignedZero(s)
    ELSE IF BBits(M) + E > 1024 THEN SignedInf(s)
    ELSE Odd(s, M, E, BTrailing(M))
\* N / 2^sh rounded to the nearest integer, half to even; st: the number
\* rounded is a little more than N
RoundUp(N, sh, st) ==
    BBit(N, sh - 1) = 1 /\ (st \/ ~BLowZero(N, sh - 1) \/ BBit(N, sh) = 1)
HalfEven(N, sh, st) ==
    IF RoundUp(N, sh, st) THEN BAdd(BShr(N, sh), <<1>>) ELSE BShr(N, sh)
RoundAt(s, N, E, st, sh) ==
    IF sh <= 0 THEN Canon(s, N, E) ELSE Canon(s, HalfEven(N, sh, st), E + sh)
\* the double nearest to s * N * 2^E (to s * (N + d) * 2^E with 0 < d < 1
\* when st, N then of 55 bits or more): 53 bits are kept, fewer below
\* 2^-1022, and beyond the largest double the result is an infinity
RoundToDouble(s, N, E, st) ==
    IF Len(N) = 0 THEN SignedZero(s)
    ELSE RoundAt(s, N, E, st, Max(BBits(N) - 53, 0 - 1074 - E))

FromInt(n) == Canon(Sgn(n), BigOfInt(Abs(n)), 0)

\* |a| against |b|, neither nan: -1, 0, 1
MagCmp(a, b) ==
    IF Top(a) # Top(b) THEN (IF Top(a) < Top(b) THEN -1 ELSE 1)
    ELSE BCmp(BShl(a[2], a[3] - Min(a[3], b[3])), BShl(b[2], b[3] - Min(a[3], b[3])))
\* a < b and a <= b; every comparison with nan is false
FLt(a, b) ==
    /\ ~IsNaN(a) /\ ~IsNaN(b)
    /\ \/ a[1] < b[1]
       \/ a[1] = b[1] /\ a[1] # 0 /\ a[1] * MagCmp(a, b) < 0
FLe(a, b) == (a = b /\ ~IsNaN(a)) \/ (IsZero(a) /\ IsZero(b)) \/ FLt(a, b)

\* a + b in doubles, the sum of the two rounded once
AddSigned(sa, A, sb, Bm, E, c) ==
    IF sa = sb THEN RoundToDouble(sa, BAdd(A, Bm), E, FALSE)
    ELSE IF c = 0 THEN Zero
    ELSE IF c > 0 THEN RoundToDouble(sa, BSub(A, Bm), E, FALSE)
    ELSE RoundToDouble(sb, BSub(Bm, A), E, FALSE)
AddAligned(sa, A, sb, Bm, E) == AddSigned(sa, A, sb, Bm, E, BCmp(A, Bm))
\* b is far below the last place of a: it only decides the direction
AddTiny(a, b) ==
    IF a[1] = b[1] THEN RoundToDouble(a[1], BShl(a[2], 56), a[3] - 56, TRUE)
    ELSE RoundToDouble(a[1], BSub(BShl(a[2], 56), <<1>>), a[3] - 56, TRUE)
AddFinite(a, b) ==
    IF a[1] = 0 /\ b[1] = 0 THEN (IF a = b THEN a ELSE Zero)
    ELSE IF a[1] = 0 THEN b ELSE IF b[1] = 0 THEN a
    ELSE IF Top(a) - Top(b) > 60 THEN AddTiny(a, b)
    ELSE IF Top(b) - Top(a) > 60 THEN AddTiny(b, a)
    ELSE AddAligned(a[1], BShl(a[2], a[3] - Min(a[3], b[3])),
                    b[1], BShl(b[2], b[3] - Min(a[3], b[3])), Min(a[3], b[3]))
FAdd(a, b) ==
    IF IsNaN(a) \/ IsNaN(b) THEN NaN
    ELSE IF IsInf(a) /\ IsInf(b) THEN (IF a = b THEN a ELSE NaN)
    ELSE IF IsInf(a) THEN a
    ELSE IF IsInf(b) THEN b
    ELSE AddFinite(a, b)
FSub(a, b) == FAdd(a, FNeg(b))
\* a * b in doubles
FMul(a, b) ==
    IF IsNaN(a) \/ IsNaN(b) THEN NaN
    ELSE IF IsInf(a) \/ IsInf(b)
    THEN (IF a[1] = 0 \/ b[1] = 0 THEN NaN ELSE SignedInf(a[1] * b[1]))
    ELSE RoundToDouble(SignOf(a) * SignOf(b), BMul(a[2], b[2]), a[3] + b[3], FALSE)
\* the double nearest to s * (N / D) * 2^E, qr the quotient of N by D
DivRounded(s, qr, E) == RoundToDouble(s, qr[1], E, ~qr[2])
DivShifted(a, b, sh) ==
    DivRounded(a[1] * b[1], BDiv(BShl(a[2], sh), b[2]), a[3] - b[3] - sh)
\* a / b in doubles (b # 0)
FDiv(a, b) ==
    IF IsNaN(a) \/ IsNaN(b) THEN NaN
    ELSE IF IsInf(a) THEN (IF IsInf(b) THEN NaN ELSE SignedInf(a[1] * SignOf(b)))
    ELSE IF IsInf(b) \/ a[1] = 0 THEN SignedZero(SignOf(a) * SignOf(b))
    ELSE DivShifted(a, b, Max(0, 56 + BBits(b[2]) - BBits(a[2])))

\* N * 10^e
RECURSIVE MulPow10(_, _)
MulPow10(N, e) ==
    IF Len(N) = 0 THEN <<>>
    ELSE IF e >= 16
    THEN MulPow10(BMulSmall(BMulSmall(BMulSmall(BMulSmall(N, 10000), 10000),
                                      10000), 10000), e - 16)
    ELSE IF e >= 4 THEN MulPow10(BMulSmall(N, 10000), e - 4)
    ELSE IF e > 0 THEN MulPow10(BMulSmall(N, 10), e - 1)
    ELSE N
DecimalQuotient(s, N, D, sh) == DivRounded(s, BDiv(BShl(N, sh), D), 0 - sh)
DecimalOver(s, N, D) == DecimalQuotient(s, N, D, Max(0, 56 + BBits(D) - BBits(N)))
\* the double nearest to s * N * 10^e
DecimalToDouble(s, N, e) ==
    IF Len(N) = 0 THEN SignedZero(s)
    ELSE IF e >= 0 THEN RoundToDouble(s, MulPow10(N, e), 0, FALSE)
    ELSE DecimalOver(s, N, MulPow10(<<1>>, 0 - e))
\* the float of the literal m e-notation e
Dec(m, e) == DecimalToDouble(Sgn(m), BigOfInt(Abs(m)), e)

\* the integer square root of N, by Newton's iteration downward from g
RECURSIVE ISqrtBig(_, _)
ISqrtStep(N, g, h) == IF BCmp(h, g) >= 0 THEN g ELSE ISqrtBig(N, h)
ISqrtBig(N, g) == ISqrtStep(N, g, BShr(BAdd(g, BDiv(N, g)[1]), 1))
SqrtRooted(N, root, E) ==
    RoundToDouble(1, root, E, BCmp(BMul(root, root), N) # 0)
SqrtOf(N, E) == SqrtRooted(N, ISqrtBig(N, BShl(<<1>>, (BBits(N) + 1) \div 2)), E \div 2)
SqrtShifted(a, t) == SqrtOf(BShl(a[2], t), a[3] - t)
SqrtEven(a, t0) == SqrtShifted(a, t0 + ((a[3] - t0) % 2))
\* math.sqrt for a >= 0: the root of M * 2^t (110 bits or more, E - t
\* even), rounded once
FSqrt(a) ==
    IF a[1] = 0 \/ IsNaN(a) \/ IsInf(a) THEN a
    ELSE SqrtEven(a, Max(0, 110 - BBits(a[2])))

\* the outcome of a call: a value, or the exception it raised
Value(v) == [exc |-> "none", val |-> v]
Raise(e) == [exc |-> e, val |-> Zero]
\* What pow and exp of the C library can give for the exact value
\* s * N * 2^E: the double nearest to it and, when the value lies within
\* slack / 1024 of a unit in the last place of the middle of the two doubles
\* around it, both of these.  A library gives one of them, the same at every
\* call with the same argument.  glibc bounds the error of pow by 0.54 and
\* that of exp by 0.511 units in the last place
PowSlack == 41
ExpSlack == 12
\* the place of the value between the two doubles, in 1024ths
LibmPlace(N, sh) == Limb(BShr(N, sh - 10), 1) % 1024
LibmAround(s, N, E, st, sh, slack) ==
    {RoundAt(s, N, E, st, sh)} \cup
    (IF sh >= 10 /\ Abs(2 * LibmPlace(N, sh) - 1023) < 2 * slack
     THEN {Canon(s, BShr(N, sh), E + sh),
           Canon(s, BAdd(BShr(N, sh), <<1>>), E + sh)}
     ELSE {})
LibmDoubles(s, N, E, st, slack) ==
    LibmAround(s, BShl(N, 10), E - 10, st,
               Max(BBits(N) - 43, 0 - 1064 - E), slack)

\* x ** 3, the outcomes: a finite x whose cube is beyond the largest double
\* raises OverflowError
Pow3Checked(p) == IF IsInf(p) THEN Raise("OverflowError") ELSE Value(p)
FPow3(a) ==
    IF ~IsFinite(a) \/ IsZero(a) THEN {Value(a)}
    ELSE {Pow3Checked(p) :
             p \in LibmDoubles(SignOf(a), BMul(BMul(a[2], a[2]), a[2]),
                               3 * a[3], FALSE, PowSlack)}

\* math.exp in fixed point, ExpBits bits after the point; LN2_FIXED is
\* ln 2 in these units
ExpBits == 7 * LimbBits
LN2_FIXED == <<3680, 7739, 10994, 3961, 8007, 8575, 11356>>
\* st = <<r^n / n!, 1 + r + ... + r^(n-1) / (n-1)!>>
RECURSIVE ExpSeries(_, _, _)
ExpSeries(r, n, st) ==
    IF Len(st[1]) = 0 THEN st[2]
    ELSE ExpSeries(r, n + 1, <<BDivSmall(BShr(BMul(st[1], r), ExpBits), n + 1),
                               BAdd(st[2], st[1])>>)
\* e^r for 0 <= r < ln 2
ExpOfFixed(r) == ExpSeries(r, 1, <<r, BShl(<<1>>, ExpBits)>>)
\* |x| = q ln 2 + r: e^x is 2^q e^r, e^-x is 2^(-q-1) e^(ln 2 - r)
ExpReduced(s, q, r) ==
    IF s > 0 THEN LibmDoubles(1, ExpOfFixed(r), q - ExpBits, TRUE, ExpSlack)
    ELSE LibmDoubles(1, ExpOfFixed(BSub(LN2_FIXED, r)), 0 - q - 1 - ExpBits,
                     TRUE, ExpSlack)
ExpQuotient(s, X, q) == ExpReduced(s, q, BSub(X, BMulSmall(LN2_FIXED, q)))
ExpFixed(s, X) == ExpQuotient(s, X, Limb(BDiv(X, LN2_FIXED)[1], 1))
\* |x| below 2^-27: 1 + x + x^2 / 2 in units of 2^(2E - 1); the rest of
\* the series is below 2^-83
ExpTinySum(x, one, lin, sq) ==
    IF x[1] > 0 THEN BAdd(BAdd(one, lin), sq) ELSE BSub(BAdd(one, sq), lin)
ExpTiny(x) ==
    LibmDoubles(1, ExpTinySum(x, BShl(<<1>>, 1 - 2 * x[3]), BShl(x[2], 1 - x[3]),
                              BMul(x[2], x[2])),
                2 * x[3] - 1, x[1] > 0, ExpSlack)
ExpChecked(e) == IF IsInf(e) THEN Raise("OverflowError") ELSE Value(e)
\* math.exp, the outcomes: OverflowError above 709.782712893384, 0.0 below
\* -745.14
FExp(x) ==
    IF IsNaN(x) THEN {Value(NaN)}
    ELSE IF IsInf(x) THEN {Value(IF x[1] > 0 THEN PosInf ELSE Zero)}
    ELSE IF x[1] = 0 \/ Top(x) < -60 THEN {Value(One)}
    ELSE IF Top(x) > 10
    THEN {IF x[1] > 0 THEN Raise("OverflowError") ELSE Value(Zero)}
    ELSE {ExpChecked(e) :
             e \in IF Top(x) <= -27 THEN ExpTiny(x)
                   ELSE ExpFixed(x[1], BShl(x[2], x[3] + ExpBits))}
\* 1.0 - math.exp(x), the outcomes
OneMinusOf(e) == IF e.exc # "none" THEN e ELSE Value(FSub(One, e.val))
OneMinusExp(x) == {OneMinusOf(e) : e \in FExp(x)}
\* the outcomes of two calls of pow, of x with the outcomes X and of y with
\* the outcomes Y: one argument has one outcome
TwoCalls(x, X, y, Y) == {p \in X \X Y : x = y => p[1] = p[2]}

\* round(x, nd): x 10^nd to the nearest integer, half to even, and the
\* double nearest to that integer over 10^nd
RoundScaled(a, nd, X) == DecimalToDouble(a[1], HalfEven(X, 0 - a[3], FALSE), 0 - nd)
PyRound(a, nd) ==
    IF ~IsFinite(a) \/ IsZero(a) \/ a[3] >= 0 THEN a
    ELSE RoundScaled(a, nd, MulPow10(a[2], nd))
FromRounded(s, N) == IF Len(N) = 0 THEN Zero ELSE Canon(s, N, 0)
\* round(x): the nearest integer, half to even; the result is an int, and
\* the int 0 has no sign
PyRoundInt(a) ==
    IF IsNaN(a) THEN Raise("ValueError")
    ELSE IF IsInf(a) THEN Raise("OverflowError")
    ELSE IF IsZero(a) THEN Value(Zero)
    ELSE IF a[3] >= 0 THEN Value(a)
    ELSE Value(FromRounded(a[1], HalfEven(a[2], 0 - a[3], FALSE)))

\* Python values: a dict, a float, None, an exception that left the call
PyDict(d) == [type |-> "dict", value |-> d]
PyNum(x) == [type |-> "float", value |-> x]
PyNone == [type |-> "NoneType", value |-> Zero]
PyException(name) == [type |-> "exception", value |-> name]

-----------------------------------------------------------------------------
(* Python strings, as sequences of one-character strings.  A character     *)
(* beyond U+00FF is written as the decimal numeral of its code point:      *)
(* "8195" is the em space U+2003, "1633" the Arabic-Indic digit one.       *)

DigitChars == {"0", "1", "2", "3", "4", "5", "6", "7", "8", "9"}
DigitVal(c) ==
    CASE c = "0" -> 0 [] c = "1" -> 1 [] c = "2" -> 2 [] c = "3" -> 3
      [] c = "4" -> 4 [] c = "5" -> 5 [] c = "6" -> 6 [] c = "7" -> 7
      [] c = "8" -> 8 [] c = "9" -> 9

\* s[lo:hi]: a negative index counts from the end, both are clamped to 0..len
PyIndex(i, n) ==
    IF i < 0 THEN (IF i + n < 0 THEN 0 ELSE i + n)
    ELSE IF i > n THEN n ELSE i
PySlice(s, lo, hi) ==
    LET l == PyIndex(lo, Len(s))
        h == PyIndex(hi, Len(s))
    IN  IF l < h THEN SubSeq(s, l + 1, h) ELSE <<>>

\* the characters for which str.isspace() holds: the blank, tab, newline,
\* carriage return, form feed and vertical tab (0x0b), the four separators
\* 0x1c to 0x1f, the next-line character (0x85), the no-break space (0xa0)
\* and the spaces and line separators from U+1680 on.  str.strip() removes
\* them all
AsciiWhitespace == {" ", "\t", "\n", "\r", "\f", ""}
Separators == {"", "", "", ""}
LatinSpaces == {"", " "}
FarSpaces ==
    {ToString(n) : n \in {5760} \cup (8192..8202)
                              \cup {8232, 8233, 8239, 8287, 12288}}
Whitespace ==
    AsciiWhitespace \cup Separators \cup LatinSpaces \cup FarSpaces

\* the code points of the digits zero of the scripts beyond ASCII; the nine
\* characters that follow each are its digits one to nine
DecimalZeros ==
    {1632, 1776, 1984, 2406, 2534, 2662, 2790, 2918, 3046, 3174, 3302,
     3430, 3558, 3664, 3792, 3872, 4160, 4240, 6112, 6160, 6470, 6608,
     6784, 6800, 6992, 7088, 7232, 7248, 42528, 43216, 43264, 43472, 43504,
     43600, 44016, 65296, 66720, 68912, 69734, 69872, 69942, 70096, 70384,
     70736, 70864, 71248, 71360, 71472, 71904, 72016, 72784, 73040, 73120,
     92768, 92864, 93008, 120782, 120792, 120802, 120812, 120822, 123200,
     123632, 125264, 130032}
FarDigits == {<<ToString(z + d), d>> : z \in DecimalZeros, d \in 0..9}
FarDigitChars == {p[1] : p \in FarDigits}
FarDigitVal(c) == (CHOOSE p \in FarDigits : p[1] = c)[2]
\* float() reads a string through its ASCII form: a character beyond ASCII
\* that is whitespace counts as a blank, a decimal digit of any script as
\* the ASCII digit of its value.  The whitespace it then drops from the two
\* ends is AsciiWhitespace: the four separators are not among it
FloatChar(c) ==
    IF c \in LatinSpaces \cup FarSpaces THEN " "
    ELSE IF c \in FarDigitChars
    THEN <<"0", "1", "2", "3", "4", "5", "6", "7", "8", "9">>[FarDigitVal(c) + 1]
    ELSE c
FloatAscii(s) == [i \in 1..Len(s) |-> FloatChar(s[i])]

\* s without the characters of ws at its two ends
RECURSIVE LStrip(_, _)
LStrip(s, ws) == IF s # <<>> /\ Head(s) \in ws THEN LStrip(Tail(s), ws) ELSE s
RECURSIVE RStrip(_, _)
RStrip(s, ws) ==
    IF s # <<>> /\ s[Len(s)] \in ws
    THEN RStrip(SubSeq(s, 1, Len(s) - 1), ws) ELSE s
\* s.strip()
PyStrip(s) == RStrip(LStrip(s, Whitespace), Whitespace)

StartsWith(s, c) == s # <<>> /\ Head(s) = c
Contains(s, c) == \E i \in 1..Len(s) : s[i] = c

\* s.replace(c, r), r a string
RECURSIVE PyReplace(_, _, _)
PyReplace(s, c, r) ==
    IF s = <<>> THEN <<>>
    ELSE (IF Head(s) = c THEN r ELSE <<Head(s)>>) \o PyReplace(Tail(s), c, r)

\* s.split(c): the list of the pieces between the occurrences of c
RECURSIVE PySplit(_, _)
PySplit(s, c) ==
    IF ~Contains(s, c) THEN <<s>>
    ELSE LET i == CHOOSE j \in 1..Len(s) :
                      s[j] = c /\ \A k \in 1..(j - 1) : s[k] # c
         IN  <<SubSeq(s, 1, i - 1)>> \o PySplit(SubSeq(s, i + 1, Len(s)), c)

RECURSIVE DigitsToInt(_)
DigitsToInt(ds) ==
    IF ds = <<>> THEN 0
    ELSE 10 * DigitsToInt(SubSeq(ds, 1, Len(ds) - 1)) + DigitVal(ds[Len(ds)])

AllDigits(s) == \A i \in 1..Len(s) : s[i] \in DigitChars
IsSign(c) == c = "+" \/ c = "-"
Unsigned(s) == IF s # <<>> /\ IsSign(Head(s)) THEN Tail(s) ELSE s

\* the letters of "e", "inf", "infinity" and "nan" in lower case
Lower(c) ==
    CASE c = "E" -> "e" [] c = "I" -> "i" [] c = "N" -> "n" [] c = "F" -> "f"
      [] c = "A" -> "a" [] c = "T" -> "t" [] c = "Y" -> "y" [] OTHER -> c
LowerStr(s) == [i \in 1..Len(s) |-> Lower(s[i])]

\* digits, with single underscores between them
DigitGroup(s) ==
    /\ s # <<>>
    /\ \A i \in 1..Len(s) : s[i] \in DigitChars \cup {"_"}
    /\ s[1] # "_" /\ s[Len(s)] # "_"
    /\ \A i \in 1..(Len(s) - 1) : ~(s[i] = "_" /\ s[i + 1] = "_")
IsDigit(c) == c \in DigitChars
Digits(s) == SelectSeq(s, IsDigit)
RECURSIVE StripZeros(_)
StripZeros(s) == IF s # <<>> /\ Head(s) = "0" THEN StripZeros(Tail(s)) ELSE s

\* float(s):
\*   [sign] (digits ["." [digits]] | "." digits) [("e" | "E") [sign] digits]
\*   [sign] ("inf" | "infinity" | "nan"), in any case
\* between whitespace; anything else raises ValueError.  The value is the
\* double nearest to the decimal number: inf beyond the largest double, 0.0
\* below half the smallest

\* the number the digits ds[i..] write after those of acc
RECURSIVE BigDigits(_, _, _)
BigDigits(ds, i, acc) ==
    IF Len(acc) >= 0 /\ i > Len(ds) THEN acc
    ELSE BigDigits(ds, i + 1,
                   BAdd(BMulSmall(acc, 10), BigOfInt(DigitVal(ds[i]))))
DigitsToBig(ds) == BigDigits(ds, 1, <<>>)
\* the double of the literal with sign neg, mantissa digits ds and exponent
\* e; sci is the exponent of its first digit
FloatValue(neg, ds, e, sci) ==
    IF ds = <<>> \/ sci < -400 THEN Value(IF neg THEN NegZero ELSE Zero)
    ELSE IF sci > 400 THEN Value(IF neg THEN NegInf ELSE PosInf)
    ELSE Value(DecimalToDouble(IF neg THEN -1 ELSE 1, DigitsToBig(ds), e))
FloatExponent(neg, ds, e) == FloatValue(neg, ds, e, e + Len(ds) - 1)
\* ds: the digits of the mantissa from the first that is not 0; nfp: how
\* many digits follow the point; ex: the digits of the exponent
FloatDigits(neg, ds, nfp, exNeg, ex) ==
    LET exVal == IF Len(ex) > 6 THEN 999999 ELSE DigitsToInt(ex)
    IN  FloatExponent(neg, ds, (IF exNeg THEN 0 - exVal ELSE exVal) - nfp)
\* parts: the literal split at "e"; mparts: its mantissa, without the sign,
\* split at "."
FloatLiteral(parts, mparts) ==
    LET ip == mparts[1]
        fp == IF Len(mparts) = 2 THEN mparts[2] ELSE <<>>
        mantOk == /\ Len(mparts) <= 2
                  /\ ip = <<>> \/ DigitGroup(ip)
                  /\ fp = <<>> \/ DigitGroup(fp)
                  /\ Len(ip) + Len(fp) >= 1
        exOk == \/ Len(parts) = 1
                \/ Len(parts) = 2 /\ DigitGroup(Unsigned(parts[2]))
    IN  IF ~(mantOk /\ exOk) THEN Raise("ValueError")
        ELSE FloatDigits(StartsWith(parts[1], "-"),
                         StripZeros(Digits(ip \o fp)),
                         Len(Digits(fp)),
                         Len(parts) = 2 /\ StartsWith(parts[2], "-"),
                         IF Len(parts) = 2
                         THEN StripZeros(Digits(Unsigned(parts[2])))
                         ELSE <<>>)
FloatSplit(parts) == FloatLiteral(parts, PySplit(Unsigned(parts[1]), "."))
\* s is the string in lower case, without the whitespace around it
FloatWord(s) ==
    IF Unsigned(s) \in {<<"i", "n", "f">>,
                        <<"i", "n", "f", "i", "n", "i", "t", "y">>}
    THEN Value(IF StartsWith(s, "-") THEN NegInf ELSE PosInf)
    ELSE IF Unsigned(s) = <<"n", "a", "n">> THEN Value(NaN)
    ELSE FloatSplit(PySplit(s, "e"))
PyFloat(str) ==
    FloatWord(LowerStr(RStrip(LStrip(FloatAscii(str), AsciiWhitespace),
                              AsciiWhitespace)))

-----------------------------------------------------------------------------
(* satellite_tracker/utils.py: parse_and_get_value                         *)

\* the "scientific notation" block, lines 25-37, on parts (line 26): None
\* stands for falling through to the final float(raw_value)
SciParts(parts) ==
    IF Len(parts) = 3 /\ parts[1] = <<>>
    THEN \* float(f"-0.{base}e-{exponent}")
         PyFloat(<<"-", "0", ".">> \o parts[2] \o <<"e", "-">> \o parts[3])
    ELSE IF Len(parts) = 2
    THEN LET base == parts[1]
             exponent == parts[2]
         IN  IF Len(base) > 1
             THEN \* float(f"0.{base[:-1]}e{base[-1]}{exponent}")
                  PyFloat(<<"0", ".">> \o SubSeq(base, 1, Len(base) - 1)
                          \o <<"e", base[Len(base)]>> \o exponent)
             ELSE \* float(f"0.{base}e-{exponent}")
                  PyFloat(<<"0", ".">> \o base \o <<"e", "-">> \o exponent)
    ELSE Raise("None")
SciNotation(raw_value) ==
    SciParts(PySplit(PyReplace(PyReplace(raw_value, "+", <<"e", "+">>),
                               "-", <<"e", "-">>), "e"))

\* line 40 after the block: r is what the block gave
SciOrPlain(raw_value, r) == IF r.exc = "None" THEN PyFloat(raw_value) ELSE r

\* the body of the try block, lines 17-40
TryParse(raw_value) ==
    IF StartsWith(raw_value, "-") /\ Len(raw_value) < 2 THEN Raise("IndexError")
    ELSE IF StartsWith(raw_value, "-") /\ raw_value[2] = "."
    THEN PyFloat(<<"-", "0">> \o Tail(raw_value))
    ELSE IF StartsWith(raw_value, "+") /\ Len(raw_value) < 2 THEN Raise("IndexError")
    ELSE IF StartsWith(raw_value, "+") /\ raw_value[2] = "."
    THEN PyFloat(<<"0">> \o Tail(raw_value))
    ELSE IF StartsWith(raw_value, ".")
    THEN PyFloat(<<"0">> \o raw_value)
    ELSE IF Contains(Tail(raw_value), "-") \/ Contains(Tail(raw_value), "+")
    THEN SciOrPlain(raw_value, SciNotation(raw_value))
    ELSE PyFloat(raw_value)

\* lines 13-42 on raw_value; r is the outcome of the try block
Caught(r) == IF r.exc \in {"ValueError", "IndexError"} THEN Value(Zero) ELSE r
ParseField(raw_value) ==
    IF raw_value = <<>> THEN Value(Zero) ELSE Caught(TryParse(raw_value))
\* parse_and_get_value(line, start, end): the value returned, or the
\* exception that leaves the function
parse_and_get_value(ln, st, en) == ParseField(PyStrip(PySlice(ln, st - 1, en)))

\* the characters of the generated lines: two digits, the signs, the point,
\* the blank, the exponent letter and a letter that belongs to no number
Alphabet == {"1", "2", "-", "+", ".", " ", "e", "x"}
RECURSIVE StringsOfLen(_)
StringsOfLen(n) ==
    IF n = 0 THEN {<<>>}
    ELSE {<<c>> \o t : c \in Alphabet, t \in StringsOfLen(n - 1)}
ShortLines == UNION {StringsOfLen(n) : n \in 0..MaxLen}
\* the literal fields of the specification's examples and of the code's comments
Fixtures ==
    { <<" ", "1", "4", ".", "2", "7", "1", "9">>,
      <<"-", ".", "1", "2", "3", "4">>,
      <<"1", "2", "3", "4", "5", "-", "6">>,
      <<"-", "1", "2", "3", "4", "5", "-", "6">>,
      <<"1", "2", "3", "4", "5", "+", "3">>,
      <<"5", "-", "4">> }
\* fields float() reads beyond digits, signs, a point and a lower-case
\* exponent: the infinities, nan, "E", an underscore between digits, a
\* negative zero, whitespace other than the blank (a separator, which
\* str.strip() removes and float() alone would reject, and an em space) and
\* the digits of another script
FloatForms ==
    { <<"i", "n", "f">>, <<"-", "I", "n", "f", "i", "n", "i", "t", "y">>,
      <<"n", "a", "n">>, <<"1", "E", "5">>, <<"1", "_", "0">>,
      <<"\t", "1">>, <<"1", "\n">>, <<"-", "0">>, <<"", "1">>,
      <<"8195", "1633", "1634">>, <<"1", "8195", "2">> }
Columns == (0 - MaxCol)..(MaxLen + MaxCol)

DecIdle ==
    /\ line = <<>> /\ start = 1 /\ end = 0
    /\ dec_pc = "idle" /\ dec_result = Zero

DecInit ==
    /\ \/ line \in ShortLines /\ start \in Columns /\ end \in Columns
       \/ line \in Fixtures \cup FloatForms /\ start = 1 /\ end = Len(line)
    /\ dec_pc = "call"
    /\ dec_result = Zero

\* one call of parse_and_get_value(line, start, end)
ParseAndGetValue ==
    /\ dec_pc = "call"
    /\ \E r \in {parse_and_get_value(line, start, end)} :
           /\ dec_pc' = IF r.exc = "none" THEN "returned" ELSE "raised"
           /\ dec_result' = r.val
    /\ UNCHANGED <<line, start, end>>
    /\ UNCHANGED <<cvVars, aggVars, riskVars, apiVars, cacheVars>>

-----------------------------------------------------------------------------
(* The altitude to mean motion converters.                                 *)

\* math.pi, the double of 3.141592653589793
PI ==
    PyFloat(<<"3", ".", "1", "4", "1", "5", "9", "2", "6", "5", "3", "5", "8",
              "9", "7", "9", "3">>).val
\* 398600.4418 km^3/s^2 and 6378.137 km
MU_KM3_PER_S2 ==
    PyFloat(<<"3", "9", "8", "6", "0", "0", ".", "4", "4", "1", "8">>).val
EARTH_RADIUS_KM == PyFloat(<<"6", "3", "7", "8", ".", "1", "3", "7">>).val

\* lines 23-36 of orbit.py, 54-70 of utils.py: the part the two share, by
\* its intermediate values.  The OverflowError of the cube is not among the
\* exceptions caught
KeplerOfPeriod(period_seconds) ==
    IF IsZero(period_seconds) THEN Value(PosInf)
    ELSE Value(FDiv(FromInt(86400), period_seconds))
\* ratio is orbital_radius_km ** 3 / MU_KM3_PER_S2
KeplerOfRatio(ratio) ==
    IF FLt(ratio, Zero) THEN Value(Zero)   \* math.sqrt raises ValueError
    ELSE KeplerOfPeriod(FMul(FMul(FromInt(2), PI), FSqrt(ratio)))
\* cube is the outcome of orbital_radius_km ** 3
KeplerOfCube(cube) ==
    IF cube.exc # "none" THEN cube
    ELSE KeplerOfRatio(FDiv(cube.val, MU_KM3_PER_S2))
KeplerMeanMotion(altitude_km) ==
    {KeplerOfCube(cube) : cube \in FPow3(FAdd(EARTH_RADIUS_KM, altitude_km))}

\* utils.py: altitude_to_mean_motion, the outcomes
altitude_to_mean_motion(altitude_km) ==
    IF FLe(altitude_km, Zero) THEN {Value(Zero)}
    ELSE KeplerMeanMotion(altitude_km)

\* orbit.py: _altitude_to_mean_motion, the outcomes
private_altitude_to_mean_motion(altitude_km) ==
    IF FLt(altitude_km, Zero) THEN {Value(Zero)}
    ELSE KeplerMeanMotion(altitude_km)

\* the cube of the radius at 1944.01 km lies within 0.006 units in the last
\* place of the middle of two doubles
Altitudes ==
    {FromInt(50 * k) : k \in (0 - MaxAltSteps)..MaxAltSteps} \cup {Dec(194401, -2)}

CvIdle ==
    /\ cv_altitude = Zero /\ cv_which = "none"
    /\ cv_pc = "idle" /\ cv_result = Zero

CvInit ==
    /\ cv_altitude \in Altitudes
    /\ cv_which \in {"utils", "orbit"}
    /\ cv_pc = "call"
    /\ cv_result = Zero

\* a call of utils.altitude_to_mean_motion
ConvertPublic ==
    /\ cv_pc = "call" /\ cv_which = "utils"
    /\ \E r \in altitude_to_mean_motion(cv_altitude) :
           /\ cv_result' = r.val
           /\ cv_pc' = IF r.exc = "none" THEN "returned" ELSE "raised"
    /\ UNCHANGED <<cv_altitude, cv_which>>
    /\ UNCHANGED <<decVars, aggVars, riskVars, apiVars, cacheVars>>

\* a call of orbit._altitude_to_mean_motion
ConvertPrivate ==
    /\ cv_pc = "call" /\ cv_which = "orbit"
    /\ \E r \in private_altitude_to_mean_motion(cv_altitude) :
           /\ cv_result' = r.val
           /\ cv_pc' = IF r.exc = "none" THEN "returned" ELSE "raised"
    /\ UNCHANGED <<cv_altitude, cv_which>>
    /\ UNCHANGED <<decVars, aggVars, riskVars, apiVars, cacheVars>>

-----------------------------------------------------------------------------
(* satellite_tracker/orbit.py: calculate_orbit_congestion_by_altitude      *)
(*                                                                         *)
(* A record of the batch is [line1, line2, sat, mean_motion, inclination]: *)
(*   line1, line2   "None" (absent or empty), "short" (fewer than 69       *)
(*                  columns) or "full";                                    *)
(*   sat            what EarthSatellite(line1, line2, name, ts) does with  *)
(*                  the two lines: "ok" or "raises" (skyfield and sgp4 are *)
(*                  not part of the repository; on two full lines they     *)
(*                  parse, on anything else either outcome is possible);   *)
(*   mean_motion    satellite.model.no_kozai * (1440 / (2 pi)), rev/day;   *)
(*   inclination    math.degrees(satellite.model.inclo), degrees.          *)
(* A cell key is (round(mean_motion, 1), int(round(inclination_deg))); the  *)
(* int is written as the double that equals it (52 and 52.0 are the same   *)
(* key of a dict).  Keys are looked up by ==: -0.0 finds the cell of 0.0,  *)
(* and the dict keeps the key it was given first.                          *)

\* key1 == key2
SameKey(key1, key2) ==
    \/ key1 = key2
    \/ key1[2] = key2[2] /\ IsZero(key1[1]) /\ IsZero(key2[1])
\* the key of cmap that cell_key finds, cell_key itself if there is none
StoredKey(cmap, cell_key) ==
    IF \E k \in DOMAIN cmap : SameKey(k, cell_key)
    THEN CHOOSE k \in DOMAIN cmap : SameKey(k, cell_key)
    ELSE cell_key

\* a running mean that weights the old average by new_count instead of
\* current_count: (avg * new_count + sample) / new_count
RunningMeanByNewCount(avg, current_count, sample) ==
    FDiv(FAdd(FMul(avg, FromInt(current_count + 1)), sample),
         FromInt(current_count + 1))

\* lines 111-116: (avg * current_count + sample) / new_count
RunningMean(avg, current_count, sample) ==
    FDiv(FAdd(FMul(avg, FromInt(current_count)), sample),
         FromInt(current_count + 1))

\* a cell that is created anew for every record, also when present
UpdateCellAnew(cmap, mean_motion, inclination_deg) ==
    LET Updated(mean_motion_bin, inclination_bin) ==
            LET cell_key == StoredKey(cmap, <<mean_motion_bin, inclination_bin>>)
                updated ==
                    [count |-> 1,
                     avg_inclination |->
                         RunningMean(Zero, 0, inclination_deg),
                     avg_mean_motion |-> RunningMean(Zero, 0, mean_motion)]
            IN  [k \in DOMAIN cmap \cup {cell_key} |->
                    IF k = cell_key THEN updated ELSE cmap[k]]
    IN  Updated(PyRound(mean_motion, 1), PyRoundInt(inclination_deg).val)

\* lines 94-117: the cell of the record, created if absent, then updated
UpdateCell(cmap, mean_motion, inclination_deg) ==
    LET Updated(mean_motion_bin, inclination_bin) ==
            LET cell_key == StoredKey(cmap, <<mean_motion_bin, inclination_bin>>)
                data == IF cell_key \in DOMAIN cmap THEN cmap[cell_key]
                        ELSE [count |-> 0, avg_inclination |-> Zero,
                              avg_mean_motion |-> Zero]
                current_count == data.count
                new_count == current_count + 1
                updated ==
                    [count |-> new_count,
                     avg_inclination |->
                         RunningMean(data.avg_inclination, current_count,
                                     inclination_deg),
                     avg_mean_motion |->
                         RunningMean(data.avg_mean_motion, current_count,
                                     mean_motion)]
            IN  [k \in DOMAIN cmap \cup {cell_key} |->
                    IF k = cell_key THEN updated ELSE cmap[k]]
    IN  Updated(PyRound(mean_motion, 1), PyRoundInt(inclination_deg).val)

\* lines 87-92: the two range tests
InWindow(f, win, mean_motion, inclination_deg) ==
    /\ FLe(f.min_mean_motion_filter, mean_motion)
    /\ FLe(mean_motion, f.max_mean_motion_filter)
    /\ FLe(win.min_inclination, inclination_deg)
    /\ FLe(inclination_deg, win.max_inclination)

\* lines 67-122: one pass of the loop body over sat_data
ProcessRecord(cmap, sat_data, f, win) ==
    IF sat_data.line1 = "None" \/ sat_data.line2 = "None" THEN cmap
    ELSE IF sat_data.sat = "raises" THEN cmap
    ELSE IF ~InWindow(f, win, sat_data.mean_motion, sat_data.inclination) THEN cmap
    ELSE IF PyRoundInt(sat_data.inclination).exc # "none"
    THEN cmap                       \* round() raises: lines 96 and 119
    ELSE UpdateCell(cmap, sat_data.mean_motion, sat_data.inclination)

\* lines 52-56: the altitude window as a mean-motion window, the outcomes;
\* exc is the exception of the first conversion that raised
MeanMotionFilters(win) ==
    LET Filters(hi, lo) ==
            [exc |-> IF hi.exc # "none" THEN hi.exc ELSE lo.exc,
             max_mean_motion_filter |-> hi.val,
             min_mean_motion_filter |-> lo.val]
    IN  {Filters(p[1], p[2]) :
            p \in TwoCalls(win.min_altitude_km,
                           private_altitude_to_mean_motion(win.min_altitude_km),
                           win.max_altitude_km,
                           private_altitude_to_mean_motion(win.max_altitude_km))}

EmptyMap == [k \in {} |-> 0]

\* the whole call on a batch: the dicts the function can return
RECURSIVE FoldRecords(_, _, _, _)
FoldRecords(cmap, batch, f, win) ==
    IF batch = <<>> THEN cmap
    ELSE FoldRecords(ProcessRecord(cmap, Head(batch), f, win), Tail(batch), f, win)
calculate_orbit_congestion_by_altitude(batch, win) ==
    LET Looped(f) ==
            IF f.exc # "none" THEN PyException(f.exc)
            ELSE PyDict(FoldRecords(EmptyMap, batch, f, win))
    IN  {Looped(f) : f \in MeanMotionFilters(win)}

\* the records the batches are drawn from; the second lies halfway between
\* two bins in both coordinates (round(15.25, 1) is 15.2, round(52.5) is 52);
\* the first, the second and the last fall into one cell, and the last bit
\* of their running means depends on the order they arrive in
Sat(l1, l2, st, mm, inc) ==
    [line1 |-> l1, line2 |-> l2, sat |-> st, mean_motion |-> mm, inclination |-> inc]
Records ==
    { Sat("full", "full", "ok", Dec(1523, -2), Dec(5164, -2)),
      Sat("full", "full", "ok", Dec(1525, -2), Dec(5250, -2)),
      Sat("full", "full", "ok", Dec(1512, -2), Dec(9760, -2)),
      Sat("full", "full", "ok", Dec(1523, -2), Zero),
      Sat("full", "full", "ok", Zero, Dec(5164, -2)),
      Sat("full", "full", "raises", Zero, Dec(5164, -2)),
      Sat("None", "full", "ok", Dec(1523, -2), Dec(5164, -2)),
      Sat("full", "None", "ok", Dec(1523, -2), Dec(5164, -2)),
      Sat("short", "short", "raises", Dec(1523, -2), Dec(5164, -2)),
      Sat("short", "short", "ok", Dec(1517, -2), Dec(5163, -2)) }

RECURSIVE BatchesOfLen(_)
BatchesOfLen(n) ==
    IF n = 0 THEN {<<>>}
    ELSE {<<r>> \o t : r \in Records, t \in BatchesOfLen(n - 1)}
Batches == UNION {BatchesOfLen(n) : n \in 0..MaxBatch}

Win(lo, hi, imin, imax) ==
    [min_altitude_km |-> FromInt(lo), max_altitude_km |-> FromInt(hi),
     min_inclination |-> FromInt(imin), max_inclination |-> FromInt(imax)]
\* the windows of the callers (height - 50, height + 50, 0, 180) and
\* (0, H_ascent, 0, 180), a narrower inclination range, an inverted and a
\* negative altitude range
Windows ==
    { Win(450, 550, 0, 180), Win(0, 600, 0, 180), Win(450, 550, 50, 60),
      Win(550, 450, 0, 180), Win(-100, -50, 0, 180) }

NoFilters ==
    [exc |-> "none", max_mean_motion_filter |-> Zero, min_mean_motion_filter |-> Zero]

AggIdle ==
    /\ tle_data_dicts = <<>> /\ window = Win(0, 0, 0, 0)
    /\ agg_pc = "idle" /\ agg_idx = 1
    /\ filters = NoFilters /\ congestion_map = EmptyMap /\ agg_return = PyNone

AggInit ==
    /\ tle_data_dicts \in Batches
    /\ window \in Windows
    /\ agg_pc = "start" /\ agg_idx = 1
    /\ filters = NoFilters /\ congestion_map = EmptyMap /\ agg_return = PyNone

\* lines 50-65: the mean-motion window, the empty map
AggStart ==
    /\ agg_pc = "start"
    /\ \E f \in MeanMotionFilters(window) :
           /\ filters' = f
           /\ agg_pc' = IF f.exc = "none" THEN "loop" ELSE "raised"
           /\ agg_return' = IF f.exc = "none" THEN agg_return
                            ELSE PyException(f.exc)
    /\ congestion_map' = EmptyMap
    /\ UNCHANGED <<tle_data_dicts, window, agg_idx>>
    /\ UNCHANGED <<decVars, cvVars, riskVars, apiVars, cacheVars>>

\* lines 67-122: the loop body on the next record
AggStep ==
    /\ agg_pc = "loop" /\ agg_idx <= Len(tle_data_dicts)
    /\ congestion_map' =
           ProcessRecord(congestion_map, tle_data_dicts[agg_idx], filters, window)
    /\ agg_idx' = agg_idx + 1
    /\ UNCHANGED <<tle_data_dicts, window, agg_pc, filters, agg_return>>
    /\ UNCHANGED <<decVars, cvVars, riskVars, apiVars, cacheVars>>

\* line 124: return congestion_map
AggReturn ==
    /\ agg_pc = "loop" /\ agg_idx > Len(tle_data_dicts)
    /\ agg_return' = PyDict(congestion_map)
    /\ agg_pc' = "done"
    /\ UNCHANGED <<tle_data_dicts, window, agg_idx, filters, congestion_map>>
    /\ UNCHANGED <<decVars, cvVars, riskVars, apiVars, cacheVars>>

-----------------------------------------------------------------------------
(* utils/risk_calculator.py                                                *)

R_EARTH_KM == FromInt(6371)
SEC_PER_YEAR == FromInt(31536000)

RiskDict(fr, p) ==
    PyDict([financial_risk |-> fr, collision_risk |-> p])

\* lines 82-89 and 148-154, shared: financial_risk and the dict;
\* P_collision is the outcome of 1.0 - math.exp(-expected_collisions)
RiskOfProbability(P_collision, total_cost_at_risk) ==
    IF P_collision.exc # "none" THEN PyException(P_collision.exc)
    ELSE RiskDict(PyRound(FMul(P_collision.val, total_cost_at_risk), 2),
                  P_collision.val)
\* lines 75-89 and 144-153, shared: P_collision, financial_risk, the dict;
\* the outcomes
RiskResult(expected_collisions, total_cost_at_risk) ==
    {RiskOfProbability(P_collision, total_cost_at_risk) :
        P_collision \in OneMinusExp(FNeg(expected_collisions))}

\* R_upper ** 3 - R_lower ** 3; upper3 and lower3 are the outcomes of the
\* two cubes
CubesApart(upper3, lower3) ==
    IF upper3.exc # "none" THEN upper3
    ELSE IF lower3.exc # "none" THEN lower3
    ELSE Value(FSub(upper3.val, lower3.val))
\* lines 50-52 and 125-126: the radii and the difference of their cubes,
\* the outcomes
RadiiCubed(R_upper, R_lower) ==
    {CubesApart(p[1], p[2]) :
        p \in TwoCalls(R_upper, FPow3(R_upper), R_lower, FPow3(R_lower))}
CubeDifference(H_upper, H_lower) ==
    RadiiCubed(FAdd(R_EARTH_KM, H_upper), FAdd(R_EARTH_KM, H_lower))

\* (4 / 3) * math.pi * cubes, cubes the outcome of the difference
VolumeOfCubes(cubes) ==
    IF cubes.exc # "none" THEN cubes
    ELSE Value(FMul(FMul(FDiv(FromInt(4), FromInt(3)), PI), cubes.val))
\* lines 50-55: V_shell, the outcomes
ShellVolume(H_upper, H_lower) ==
    {VolumeOfCubes(cubes) : cubes \in CubeDifference(H_upper, H_lower)}

\* lines 66-73: expected_collisions of the steady-orbit estimator
SteadyExpectedCollisions(a, V_shell) ==
    LET density == FDiv(a.N_objects, V_shell)
        T_seconds == FMul(a.T_years, SEC_PER_YEAR)
    IN  FMul(FMul(FMul(density, a.V_rel), FDiv(a.A_effective, FromInt(1000))),
             T_seconds)

\* lines 57-89: from the test of V_shell to the return, the outcomes;
\* V_shell is the outcome of lines 50-55
SteadyRisk(a, V_shell) ==
    IF V_shell.exc # "none" THEN {PyException(V_shell.exc)}
    ELSE IF FLe(V_shell.val, Zero) THEN {PyNum(Zero)}
    ELSE RiskResult(SteadyExpectedCollisions(a, V_shell.val),
                    FAdd(a.C_full, a.D_lost))

\* calculate_collision_financial_risk(N_objects, H_upper, H_lower, V_rel,
\*                                    A_effective, T_years, C_full, D_lost)
calculate_collision_financial_risk(a) ==
    UNION {SteadyRisk(a, V_shell) : V_shell \in ShellVolume(a.H_upper, a.H_lower)}

\* lines 125-129: V_corridor, the outcomes
CorridorVolume(H_ascent) ==
    {VolumeOfCubes(cubes) : cubes \in CubeDifference(H_ascent, Zero)}

\* lines 138-142: expected_collisions of the ascent estimator
AscentExpectedCollisions(a, V_corridor) ==
    LET density == FDiv(a.N_objects, V_corridor)
    IN  FMul(FMul(FMul(density, a.V_rel), FDiv(a.A_rocket, FromInt(1000000))),
             a.T_seconds)

\* lines 130-154: from the test of V_corridor to the return, the outcomes;
\* V_corridor is the outcome of lines 125-128
AscentRisk(a, V_corridor) ==
    IF V_corridor.exc # "none" THEN {PyException(V_corridor.exc)}
    ELSE IF FLe(V_corridor.val, Zero) THEN {PyNum(Zero)}
    ELSE RiskResult(AscentExpectedCollisions(a, V_corridor.val),
                    a.C_total_loss)

\* calculate_launch_collision_risk(N_objects, H_ascent, V_rel, A_rocket,
\*                                 T_seconds, C_total_loss)
calculate_launch_collision_risk(a) ==
    UNION {AscentRisk(a, V_corridor) : V_corridor \in CorridorVolume(a.H_ascent)}

\* the arguments the estimators are called with
Counts == {FromInt(0), FromInt(100), FromInt(-100)}
Areas == {FromInt(10), FromInt(-10), Dec(158, -1)}
SteadyArgs ==
    [N_objects : Counts,
     H_upper : {FromInt(550), FromInt(500)},
     H_lower : {FromInt(450), FromInt(500), FromInt(600)},
     V_rel : {Dec(125, -1)},
     A_effective : Areas,
     T_years : {FromInt(5)},
     C_full : {FromInt(1000000)},
     D_lost : {FromInt(500000), FromInt(-2000000)}]
AscentArgs ==
    [N_objects : Counts \cup {FromInt(100000000)},
     H_ascent : {Dec(2005, -1), Zero, FromInt(-100)},
     V_rel : {Dec(125, -1), FromInt(7800)},
     A_rocket : Areas,
     T_seconds : {FromInt(540), FromInt(-540)},
     C_total_loss : {Dec(180075, -2)}]

NoLocals == [volume |-> Zero, expected_collisions |-> Zero]

RiskIdle ==
    /\ risk_mode = "none" /\ risk_args = [N_objects |-> Zero]
    /\ risk_pc = "idle" /\ risk_locals = NoLocals /\ risk_return = PyNone

RiskInit ==
    /\ \/ risk_mode = "steady" /\ risk_args \in SteadyArgs
       \/ risk_mode = "ascent" /\ risk_args \in AscentArgs
    /\ risk_pc = "call" /\ risk_locals = NoLocals /\ risk_return = PyNone

\* a call of calculate_collision_financial_risk
CallSteady ==
    /\ risk_pc = "call" /\ risk_mode = "steady"
    /\ \E V_shell \in ShellVolume(risk_args.H_upper, risk_args.H_lower) :
           /\ risk_return' \in SteadyRisk(risk_args, V_shell)
           /\ risk_locals' =
                  [volume |-> V_shell.val,
                   expected_collisions |->
                       IF FLe(V_shell.val, Zero) THEN Zero
                       ELSE SteadyExpectedCollisions(risk_args, V_shell.val)]
    /\ risk_pc' = IF risk_return'.type = "exception" THEN "raised" ELSE "returned"
    /\ UNCHANGED <<risk_mode, risk_args>>
    /\ UNCHANGED <<decVars, cvVars, aggVars, apiVars, cacheVars>>

\* a call of calculate_launch_collision_risk
CallAscent ==
    /\ risk_pc = "call" /\ risk_mode = "ascent"
    /\ \E V_corridor \in CorridorVolume(risk_args.H_ascent) :
           /\ risk_return' \in AscentRisk(risk_args, V_corridor)
           /\ risk_locals' =
                  [volume |-> V_corridor.val,
                   expected_collisions |->
                       IF FLe(V_corridor.val, Zero) THEN Zero
                       ELSE AscentExpectedCollisions(risk_args, V_corridor.val)]
    /\ risk_pc' = IF risk_return'.type = "exception" THEN "raised" ELSE "returned"
    /\ UNCHANGED <<risk_mode, risk_args>>
    /\ UNCHANGED <<decVars, cvVars, aggVars, apiVars, cacheVars>>

-----------------------------------------------------------------------------
(* api/routes/risk.py: the /orbit_risk and /takeoff_risk handlers          *)
(*                                                                         *)
(* A request is [path, args]; args maps every parameter name to            *)
(* [present, text], text being the characters of its first value.          *)
(* get_all_active_satellites, calculate_satellite_position and             *)
(* quick_distance are imported from modules that are not among the         *)
(* repository's files here: the first hands over all_objects, a call of    *)
(* the second on a value that is no record raises.                         *)

Absent == [present |-> FALSE, text |-> <<>>]
Text(t) == [present |-> TRUE, text |-> t]

Json(body, st) == [status |-> st, body |-> body]
MissingParameter(key) ==
    Json(PyDict([message |-> <<"Missing required parameter: ", key>>]), 400)
InvalidParameter ==
    Json(PyDict([message |->
        <<"Invalid parameter type. Please provide valid numbers.", "">>]), 400)
\* an exception no except clause of the handler names: the framework's 500
ServerError(name) == Json(PyException(name), 500)

\* the reads taken from the last name to the first: the error of the last
\* read that fails
RECURSIVE LastReadError(_, _, _)
LastReadError(args, names, textual) ==
    IF names = <<>> THEN [exc |-> "none", key |-> ""]
    ELSE LET n == names[Len(names)]
         IN  IF ~args[n].present
             THEN [exc |-> "KeyError", key |-> n]
             ELSE IF n \notin textual /\ PyFloat(args[n].text).exc # "none"
             THEN [exc |-> "ValueError", key |-> n]
             ELSE LastReadError(args, SubSeq(names, 1, Len(names) - 1), textual)

\* the reads of the try block, in order: request.args[name][0] raises
\* KeyError(name), float(...) raises ValueError; "none" when all succeed
RECURSIVE FirstReadError(_, _, _)
FirstReadError(args, names, textual) ==
    IF names = <<>> THEN [exc |-> "none", key |-> ""]
    ELSE LET n == Head(names)
         IN  IF ~args[n].present
             THEN [exc |-> "KeyError", key |-> n]
             ELSE IF n \notin textual /\ PyFloat(args[n].text).exc # "none"
             THEN [exc |-> "ValueError", key |-> n]
             ELSE FirstReadError(args, Tail(names), textual)

\* request.args.get(name) is the first value of the name, a string, or None;
\* the condition of "float(request.args.get(name)[0]) if
\* request.args.get(name) else default" holds for a string that is not empty
Given(args, n) == args[n].present /\ args[n].text # <<>>
\* request.args.get(name)[0]: the first character of that string
FirstCharacter(args, n) == <<Head(args[n].text)>>
\* float() of the first character of an optional parameter raises
OptionalError(args, names) ==
    \E i \in 1..Len(names) :
        /\ Given(args, names[i])
        /\ PyFloat(FirstCharacter(args, names[i])).exc # "none"
\* float(request.args[name][0]): the first value as a whole
Number(args, n) == PyFloat(args[n].text).val
OptionalNumber(args, n, default) ==
    IF Given(args, n) THEN PyFloat(FirstCharacter(args, n)).val ELSE default

RECURSIVE SumCounts(_)
SumCounts(cmap) ==
    IF DOMAIN cmap = {} THEN 0
    ELSE LET k == CHOOSE x \in DOMAIN cmap : TRUE
         IN  cmap[k].count + SumCounts([y \in DOMAIN cmap \ {k} |-> cmap[y]])

\* "a, b = d" on the dict the aggregator returns: the two keys when it has
\* exactly two, ValueError otherwise
UnpackRaises(cmap) == Cardinality(DOMAIN cmap) # 2

OrbitNames == <<"height", "A_effective", "T_years", "C_full", "D_lost">>

\* lines 74-79, on what the aggregator returned
OrbitUnpacked(returned) ==
    IF returned.type = "exception" THEN ServerError(returned.value)
    ELSE IF UnpackRaises(returned.value) THEN InvalidParameter
    ELSE \* congestion_map is a key, a tuple: it has no values()
         ServerError("AttributeError")
\* lines 72-74: the window of 50 km either side of height
OrbitWindow(objects, height) ==
    {OrbitUnpacked(returned) :
        returned \in calculate_orbit_congestion_by_altitude(objects,
            [min_altitude_km |-> FSub(height, FromInt(50)),
             max_altitude_km |-> FAdd(height, FromInt(50)),
             min_inclination |-> Zero, max_inclination |-> FromInt(180)])}
\* lines 63-70: the reads of the parameters, err the first that fails
OrbitRead(args, objects, err) ==
    IF err.exc = "KeyError" THEN {MissingParameter(err.key)}
    ELSE IF err.exc = "ValueError" THEN {InvalidParameter}
    ELSE IF OptionalError(args, <<"V_rel">>) THEN {InvalidParameter}
    ELSE OrbitWindow(objects, Number(args, "height"))
\* orbit_collision_risk(request), lines 62-100: the answers
orbit_collision_risk(req, objects) ==
    OrbitRead(req.args, objects, FirstReadError(req.args, OrbitNames, {}))

\* return json(result): the body is the estimator's value; an exception the
\* estimator raised passes through the handler
JsonOrError(result) ==
    IF result.type = "exception" THEN ServerError(result.value)
    ELSE Json(result, 200)

TakeoffNames == <<"date", "H_ascent", "A_rocket", "T_seconds", "C_total_loss">>
\* datetime.strptime(date_str, "%Y-%m-%d") matches the string against
\*   (\d\d\d\d)-(1[0-2]|0[1-9]|[1-9])-(3[0-1]|[1-2]\d|0[1-9]|[1-9]| [1-9])
\* which has to use it up, and builds the date from the three numbers
AnyDigit(c) == c \in DigitChars \cup FarDigitChars
NonZeroDigit(c) == c \in DigitChars \ {"0"}
MonthDirective(m) ==
    \/ Len(m) = 2 /\ m[1] = "1" /\ m[2] \in {"0", "1", "2"}
    \/ Len(m) = 2 /\ m[1] = "0" /\ NonZeroDigit(m[2])
    \/ Len(m) = 1 /\ NonZeroDigit(m[1])
DayDirective(d) ==
    \/ Len(d) = 2 /\ d[1] = "3" /\ d[2] \in {"0", "1"}
    \/ Len(d) = 2 /\ d[1] \in {"1", "2"} /\ AnyDigit(d[2])
    \/ Len(d) = 2 /\ d[1] \in {"0", " "} /\ NonZeroDigit(d[2])
    \/ Len(d) = 1 /\ NonZeroDigit(d[1])
\* int() of the digits of a directive
DirectiveValue(d) == DigitsToInt(FloatAscii(LStrip(d, {" "})))
IsLeapYear(y) == y % 4 = 0 /\ (y % 100 # 0 \/ y % 400 = 0)
DaysInMonth(y, m) ==
    IF m = 2 THEN (IF IsLeapYear(y) THEN 29 ELSE 28)
    ELSE IF m \in {4, 6, 9, 11} THEN 30 ELSE 31
\* the parts of the string between its hyphens are a year, a month and a
\* day of the calendar; strptime raises ValueError when they are not
StrptimeAccepts(date_str) ==
    LET parts == PySplit(date_str, "-")
    IN  /\ Len(parts) = 3
        /\ Len(parts[1]) = 4 /\ \A i \in 1..4 : AnyDigit(parts[1][i])
        /\ MonthDirective(parts[2])
        /\ DayDirective(parts[3])
        /\ DirectiveValue(parts[1]) >= 1
        /\ DirectiveValue(parts[3]) <=
               DaysInMonth(DirectiveValue(parts[1]), DirectiveValue(parts[2]))

\* lines 205-213: the call of the estimator; filtered_satellites is the
\* second key, a pair, so that len() is 2
TakeoffLaunchRisk(args, h_ascent) ==
    calculate_launch_collision_risk(
        [N_objects |-> FromInt(2), H_ascent |-> h_ascent,
         V_rel |-> OptionalNumber(args, "V_rel", Dec(125, -1)),
         A_rocket |-> Number(args, "A_rocket"),
         T_seconds |-> Number(args, "T_seconds"),
         C_total_loss |-> Number(args, "C_total_loss")])
\* lines 190-222, on what the aggregator returned and what the estimator
\* gives; position_raises is the exception calculate_satellite_position
\* raises on a number
TakeoffUnpacked(args, position_raises, returned, orbit_risk) ==
    IF returned.type = "exception" THEN ServerError(returned.value)
    ELSE IF UnpackRaises(returned.value) THEN InvalidParameter
    ELSE IF Given(args, "lat") /\ Given(args, "lon")
    THEN IF ~StrptimeAccepts(args["date"].text)
         THEN InvalidParameter     \* strptime raises ValueError
         ELSE IF position_raises = "TypeError" THEN InvalidParameter
         ELSE ServerError(position_raises)
    ELSE JsonOrError(orbit_risk)
\* lines 188-190: the window from the ground to H_ascent
TakeoffWindow(args, objects, position_raises, h_ascent) ==
    {TakeoffUnpacked(args, position_raises, returned, orbit_risk) :
        returned \in calculate_orbit_congestion_by_altitude(objects,
            [min_altitude_km |-> Zero, max_altitude_km |-> h_ascent,
             min_inclination |-> Zero, max_inclination |-> FromInt(180)]),
        orbit_risk \in TakeoffLaunchRisk(args, h_ascent)}
\* lines 177-186: the reads of the parameters, err the first that fails
TakeoffRead(args, objects, position_raises, err) ==
    IF err.exc = "KeyError" THEN {MissingParameter(err.key)}
    ELSE IF err.exc = "ValueError" THEN {InvalidParameter}
    ELSE IF OptionalError(args, <<"lat", "lon", "V_rel">>) THEN {InvalidParameter}
    ELSE TakeoffWindow(args, objects, position_raises, Number(args, "H_ascent"))
\* takeoff_collision_risk(request), lines 176-222: the answers
takeoff_collision_risk(req, objects, position_raises) ==
    TakeoffRead(req.args, objects, position_raises,
                FirstReadError(req.args, TakeoffNames, {"date"}))

\* the query strings the requests are drawn from
NotANumber == Text(<<"x">>)
OrbitArgs ==
    [height : {Absent, NotANumber, Text(<<"5", "0", "0">>)},
     A_effective : {Absent, Text(<<"1", "0">>)},
     T_years : {Absent, NotANumber, Text(<<"5">>)},
     C_full : {Absent, Text(<<"1", "0", "0", "0", "0", "0", "0">>)},
     D_lost : {Absent, Text(<<"5", "0", "0", "0", "0", "0">>)},
     V_rel : {Absent, NotANumber, Text(<<"1", "2", ".", "5">>)}]
\* values of date: three that strptime accepts and three that it refuses
DateTexts ==
    {<<"2", "0", "2", "5", "-", "1", "0", "-", "0", "4">>,
     <<"2", "0", "2", "4", "-", "2", "-", "2", "9">>,
     <<"1633", "1641", "1641", "1641", "-", "1", "2", "-", "1", "1633">>,
     <<"2", "0", "2", "5", "-", "0", "2", "-", "2", "9">>,
     <<"2", "0", "2", "5", "-", "1", "0", "-", "0", "4", "x">>,
     <<"0", "4", ".", "1", "0", ".", "2", "0", "2", "5">>}
TakeoffArgs ==
    [date : {Absent} \cup {Text(d) : d \in DateTexts},
     H_ascent : {Absent, NotANumber, Text(<<"6", "0", "0", ".", "5">>), Text(<<"0">>)},
     A_rocket : {Absent, Text(<<"1", "5", ".", "8">>)},
     T_seconds : {Absent, Text(<<"5", "4", "0", ".", "0">>)},
     C_total_loss : {Absent, NotANumber, Text(<<"1", "8", "0", "0", ".", "7", "5">>)},
     lat : {Absent, Text(<<"4", "9", ".", "9", "9", "3", "4", "5">>),
            Text(<<"-", "5">>)},
     lon : {Absent, Text(<<"4", "9", ".", "9", "9", "3", "4", "5">>)},
     V_rel : {Absent, Text(<<"1", "2", ".", "5">>)}]
Requests ==
    {[path |-> "/orbit_risk", args |-> a] : a \in OrbitArgs}
    \cup {[path |-> "/takeoff_risk", args |-> a] : a \in TakeoffArgs}

\* api/__init__.py and the two blueprints: the paths that have a GET route
Routes == {"/orbit_risk", "/takeoff_risk", "/route1", "/route2"}
\* requests with an empty query string, to the placeholder routes and to
\* paths that have no route
NoArgs == [n \in DOMAIN CHOOSE a \in TakeoffArgs : TRUE |-> Absent]
OtherPaths == {"/route1", "/route2", "/health", "/"}
OtherRequests == {[path |-> q, args |-> NoArgs] : q \in OtherPaths}
\* the router's answer to a path without a route
NotFound == Json(PyException("NotFound"), 404)

\* the records get_all_active_satellites hands over: both in the 450-550 km
\* shell and below 600 km, in two different cells
ApiRecords ==
    { Sat("full", "full", "ok", Dec(1523, -2), Dec(5164, -2)),
      Sat("full", "full", "ok", Dec(1512, -2), Dec(9760, -2)) }
RECURSIVE ApiBatchesOfLen(_)
ApiBatchesOfLen(n) ==
    IF n = 0 THEN {<<>>}
    ELSE {<<r>> \o t : r \in ApiRecords, t \in ApiBatchesOfLen(n - 1)}
ApiBatches == UNION {ApiBatchesOfLen(n) : n \in 0..MaxApiBatch}

ApiInit ==
    /\ request \in Requests \cup OtherRequests
    /\ all_objects \in ApiBatches
    /\ api_pc = "request"
    /\ response = PyNone

\* GET /orbit_risk
HandleOrbitRisk ==
    /\ api_pc = "request" /\ request.path = "/orbit_risk"
    /\ response' \in orbit_collision_risk(request, all_objects)
    /\ api_pc' = "responded"
    /\ UNCHANGED <<request, all_objects>>
    /\ UNCHANGED <<decVars, cvVars, aggVars, riskVars, cacheVars>>

\* GET /takeoff_risk
HandleTakeoffRisk ==
    /\ api_pc = "request" /\ request.path = "/takeoff_risk"
    /\ \E position_raises \in {"TypeError", "AttributeError"} :
           response' \in takeoff_collision_risk(request, all_objects, position_raises)
    /\ api_pc' = "responded"
    /\ UNCHANGED <<request, all_objects>>
    /\ UNCHANGED <<decVars, cvVars, aggVars, riskVars, cacheVars>>

\* GET /route1 (health.py, lines 6-12)
HandleRoute1 ==
    /\ api_pc = "request" /\ request.path = "/route1"
    /\ response' = Json(PyDict([message |-> <<"This is route 1", "">>]), 200)
    /\ api_pc' = "responded"
    /\ UNCHANGED <<request, all_objects>>
    /\ UNCHANGED <<decVars, cvVars, aggVars, riskVars, cacheVars>>

\* GET /route2 (health.py, lines 14-19)
HandleRoute2 ==
    /\ api_pc = "request" /\ request.path = "/route2"
    /\ response' = Json(PyDict([message |-> <<"This is route 2", "">>]), 200)
    /\ api_pc' = "responded"
    /\ UNCHANGED <<request, all_objects>>
    /\ UNCHANGED <<decVars, cvVars, aggVars, riskVars, cacheVars>>

\* GET of a path that no blueprint registered
HandleNoRoute ==
    /\ api_pc = "request" /\ request.path \notin Routes
    /\ response' = NotFound
    /\ api_pc' = "responded"
    /\ UNCHANGED <<request, all_objects>>
    /\ UNCHANGED <<decVars, cvVars, aggVars, riskVars, cacheVars>>

-----------------------------------------------------------------------------
(* get_all_trackable_objects (satellite_tracker/tle_importer.py): the      *)
(* network fetch behind a file cache.                                      *)
(*                                                                         *)
(* The cache file is modelled by its bytes.  A text is described by what   *)
(* it says (kind, timestamp, generation, records) and has the characters   *)
(* json.dump produces for it; the file is described by its extents: the    *)
(* text each range of offsets was written from.  Every writer puts byte i  *)
(* of its text at offset i, so the byte at an offset is byte i of the text *)
(* its extent names.                                                       *)
(* json.load(f) is f.read(), which asks the file for its size and then     *)
(* reads until a read returns nothing: other callers may truncate and      *)
(* write between two reads.  What was read is parsed character by          *)
(* character.  json.dump(obj, f) hands the text to f token by token; f     *)
(* collects the tokens and writes what it has collected at its own offset  *)
(* of the file when the next token would take it beyond CHUNK_SIZE bytes.  *)
(* What is left is written when the with block closes f.  A time is an     *)
(* hour of the day the model runs in and whether its microseconds are      *)
(* other than 0: they are 0 or 123456.                                     *)

\* timedelta(hours=CACHE_DURATION_HOURS)
CACHE_DURATION_HOURS == 4
\* number of entries of urls (the first NumCategories of the listed ones)
NumCategories == 2
\* records a category delivers when its request succeeds
PerCategory == 22
\* calls a caller makes one after the other
MaxCalls == 2
\* last hour the clock reaches
MaxClock == 5

\* the callers whose calls may overlap
Procs == {1, 2}

\* len(line1) and len(line2) of a record that is kept
LineLen == 69
\* characters of the names of the records
NameLen == 12
\* bytes the text layer of an open file collects before it writes them
CHUNK_SIZE == 8192
\* bytes f.read() asks for when the file is empty, and the least it adds to
\* what it asks for when the file has grown
SMALLCHUNK == 8192

Rep(c, n) == [i \in 1..n |-> c]
DecimalDigits == <<"0", "1", "2", "3", "4", "5", "6", "7", "8", "9">>
\* str(n) of an int n >= 0
RECURSIVE IntStr(_)
IntStr(n) ==
    IF n < 10 THEN <<DecimalDigits[n + 1]>>
    ELSE IntStr(n \div 10) \o <<DecimalDigits[(n % 10) + 1]>>
\* "%0<width>d" % n
Padded(n, width) == Rep("0", width - Len(IntStr(n))) \o IntStr(n)
Quoted(s) == <<"\"">> \o s \o <<"\"">>
RECURSIVE SumOf(_)
SumOf(s) == IF s = <<>> THEN 0 ELSE Head(s) + SumOf(Tail(s))
RECURSIVE Flat(_)
Flat(seqs) == IF seqs = <<>> THEN <<>> ELSE Head(seqs) \o Flat(Tail(seqs))

\* the responses of the network (lines 53-66).  Record num of category cat
\* has a catalog number of four or five digits; fetch gen delivers it with
\* the name and the two lines of that fetch:
\*   name   C<cat>N<num>G<gen>____
\*   line1  1 <number> G<gen> aaaa...
\*   line2  2 <number> G<gen> aaaa...
CatalogNumber(cat, num) ==
    IF cat = 1 THEN 9978 + num ELSE 10000 * cat + num
NameOf(cat, num, gen) ==
    <<"C">> \o IntStr(cat) \o <<"N">> \o Padded(num, 2) \o <<"G">>
    \o Padded(gen, 2) \o Rep("_", NameLen - 8)
LineOf(k, number, gen) ==
    IntStr(k) \o <<" ">> \o Padded(number, 5) \o <<" ", "G">>
    \o Padded(gen, 2) \o <<" ">> \o Rep("a", LineLen - 12)
\* unique_objects[sat_num] (line 66), described by category, position,
\* number and the fetches its name and lines are of
Record(cat, num, gen) ==
    [cat |-> cat, num |-> num, number |-> CatalogNumber(cat, num),
     gens |-> {gen}]
\* the records of one response (lines 55-68)
CategoryRecords(cat, gen) == [k \in 1..PerCategory |-> Record(cat, k, gen)]

Content(kind, ts, frac, gen, data) ==
    [kind |-> kind, ts |-> ts, frac |-> frac, gen |-> gen, data |-> data]
\* cache_content: {"timestamp": <ts>, "data": object_list}; frac tells
\* whether utcnow() had microseconds other than 0
Document(ts, frac, gen, object_list) ==
    Content("document", ts, frac, gen, object_list)
\* bytes a writer skipped over after another writer truncated the file
Nul == Content("nul", 0, FALSE, 0, <<>>)
\* texts the function does not write:
\*   garbage           not json
\*   non_object        []
\*   no_timestamp      {"data": []}
\*   bad_timestamp     {"timestamp": "yesterday", "data": []}
\*   number_timestamp  {"timestamp": 0, "data": []}
\*   aware_timestamp   {"timestamp": "<ts>+00:00", "data": []}
\*   no_data           {"timestamp": "<ts>"}
ForeignKinds ==
    {"garbage", "non_object", "no_timestamp", "bad_timestamp",
     "number_timestamp", "aware_timestamp", "no_data"}
Foreign(kind, ts) == Content(kind, ts, TRUE, 0, <<>>)

\* datetime.isoformat() of hour ts of the day the model runs in: the
\* fraction is left out when the microseconds are 0
IsoFormat(ts, frac) ==
    <<"2", "0", "2", "6", "-", "0", "1", "-", "0", "1", "T">>
    \o Padded(ts, 2) \o <<":", "0", "0", ":", "0", "0">>
    \o (IF frac THEN <<".", "1", "2", "3", "4", "5", "6">> ELSE <<>>)
UtcOffset == <<"+", "0", "0", ":", "0", "0">>
TimestampKey == <<"t", "i", "m", "e", "s", "t", "a", "m", "p">>
DataKey == <<"d", "a", "t", "a">>
NameKey == <<"n", "a", "m", "e">>
NumberKey == <<"n", "u", "m", "b", "e", "r">>
Line1Key == <<"l", "i", "n", "e", "1">>
Line2Key == <<"l", "i", "n", "e", "2">>
Colon == <<":", " ">>
Comma == <<",", " ">>

\* the chunks json.dump hands to f.write, one after the other:
\*   { "timestamp" :_ "<ts>" ,_ "data" :_
HeaderTokens(ts, frac) ==
    <<<<"{">>, Quoted(TimestampKey), Colon, Quoted(IsoFormat(ts, frac)),
      Comma, Quoted(DataKey), Colon>>
\*   { "name" :_ "<name>" ,_ "number" :_ <number> ,_ "line1" :_ "<line1>"
\*   ,_ "line2" :_ "<line2>" }
RecordTokens(r) ==
    LET gen == CHOOSE g \in r.gens : TRUE
    IN  <<<<"{">>, Quoted(NameKey), Colon, Quoted(NameOf(r.cat, r.num, gen)),
          Comma, Quoted(NumberKey), Colon, IntStr(r.number),
          Comma, Quoted(Line1Key), Colon, Quoted(LineOf(1, r.number, gen)),
          Comma, Quoted(Line2Key), Colon, Quoted(LineOf(2, r.number, gen)),
          <<"}">>>>
Lengths(tokens) == [k \in 1..Len(tokens) |-> Len(tokens[k])]
RecordLen(r) == SumOf(Lengths(RecordTokens(r)))
\* offset of the list of records: it begins with [
ListStart(doc) == SumOf(Lengths(HeaderTokens(doc.ts, doc.frac)))
\* the offsets of the records from the i-th on, which begins at from:
\* ", " between two records
RECURSIVE Starts(_, _, _)
Starts(data, i, from) ==
    IF i > Len(data) THEN <<>>
    ELSE <<from>> \o Starts(data, i + 1, from + RecordLen(data[i]) + 2)
\* [ before the first record
RecordStarts(doc) == Starts(doc.data, 1, ListStart(doc) + 1)
\* offset of the i-th record, and of its end
RecordStart(doc, i) == RecordStarts(doc)[i]
RecordEnd(doc, i) == RecordStart(doc, i) + RecordLen(doc.data[i])
EndsFrom(starts, data) ==
    [k \in 1..Len(data) |-> starts[k] + RecordLen(data[k])]
RecordEnds(doc) == EndsFrom(RecordStarts(doc), doc.data)
\* how many of the offsets, which increase, are at most bound
CountTo(offsets, bound) ==
    Cardinality({k \in 1..Len(offsets) : offsets[k] <= bound})
\* length of the text: [] for no record, otherwise ] after the last; then }
DocumentLen(doc) ==
    IF doc.data = <<>> THEN ListStart(doc) + 3
    ELSE RecordEnd(doc, Len(doc.data)) + 2

\* the characters of a text
RECURSIVE RecordsChars(_, _)
RecordsChars(data, i) ==
    IF i > Len(data) THEN <<>>
    ELSE (IF i = 1 THEN <<>> ELSE Comma) \o Flat(RecordTokens(data[i]))
         \o RecordsChars(data, i + 1)
ForeignChars(text) ==
    LET ts == Quoted(TimestampKey) \o Colon
        data == Quoted(DataKey) \o Colon \o <<"[", "]", "}">>
        iso == IsoFormat(text.ts, text.frac)
    IN  CASE text.kind = "garbage" -> <<"n", "o", "t", " ", "j", "s", "o", "n">>
          [] text.kind = "non_object" -> <<"[", "]">>
          [] text.kind = "no_timestamp" -> <<"{">> \o data
          [] text.kind = "bad_timestamp" ->
                 <<"{">> \o ts
                 \o Quoted(<<"y", "e", "s", "t", "e", "r", "d", "a", "y">>)
                 \o Comma \o data
          [] text.kind = "number_timestamp" ->
                 <<"{">> \o ts \o <<"0">> \o Comma \o data
          [] text.kind = "aware_timestamp" ->
                 <<"{">> \o ts \o Quoted(iso \o UtcOffset) \o Comma \o data
          [] text.kind = "no_data" -> <<"{">> \o ts \o Quoted(iso) \o <<"}">>
TextChars(text) ==
    IF text.kind = "document"
    THEN Flat(HeaderTokens(text.ts, text.frac)) \o <<"[">>
         \o RecordsChars(text.data, 1) \o <<"]", "}">>
    ELSE ForeignChars(text)
TextLen(text) ==
    IF text.kind = "document" THEN DocumentLen(text)
    ELSE Len(ForeignChars(text))

\* the offsets at which a chunk of json.dump ends
Ends(from, tokens) ==
    {from + SumOf(SubSeq(Lengths(tokens), 1, k)) : k \in 0..Len(tokens)}
RecordTokenEnds(starts, data) ==
    UNION {Ends(starts[i], RecordTokens(data[i])) : i \in 1..Len(data)}
TokenEnds(doc) ==
    Ends(0, HeaderTokens(doc.ts, doc.frac))
    \cup RecordTokenEnds(RecordStarts(doc), doc.data)
    \cup {DocumentLen(doc) - 1, DocumentLen(doc)}
\* f.write(chunk) for every chunk: what f has collected since offset pos is
\* written out before a chunk that would take it beyond CHUNK_SIZE bytes,
\* and at once when it has reached CHUNK_SIZE, so that a write ends at the
\* last chunk end within CHUNK_SIZE bytes of pos
RECURSIVE Writes(_, _, _)
Writes(ends, len, pos) ==
    IF len - pos < CHUNK_SIZE THEN <<>>
    ELSE LET within == {b \in ends : pos < b /\ b - pos <= CHUNK_SIZE}
             upto == CHOOSE b \in within : \A c \in within : c <= b
         IN  <<upto - pos>> \o Writes(ends, len, upto)
\* json.dump(cache_content, f): the sizes of the writes to the file while
\* the text is produced, and the bytes pending at the end
Dumped(writes, len) == [writes |-> writes, pending |-> len - SumOf(writes)]
JsonDump(doc) ==
    Dumped(Writes(TokenEnds(doc), DocumentLen(doc), 0), DocumentLen(doc))

\* the file: an extent is the text of the bytes from the end of the extent
\* before it up to offset upto
Extent(upto, text) == [upto |-> upto, text |-> text]
From(extents, i) == IF i = 1 THEN 0 ELSE extents[i - 1].upto
Size(extents) == IF extents = <<>> THEN 0 ELSE extents[Len(extents)].upto
NoFile == [exists |-> FALSE, opens |-> FALSE, extents |-> <<>>]
File(extents) == [exists |-> TRUE, opens |-> TRUE, extents |-> extents]
\* a path that exists and that open() refuses: a directory, or a file the
\* process may not read
Unopenable == [exists |-> TRUE, opens |-> FALSE, extents |-> <<>>]
\* the file that holds the first count bytes of text
Written(text, count) ==
    File(IF count = 0 THEN <<>> ELSE <<Extent(count, text)>>)
Whole(text) == Written(text, TextLen(text))

RECURSIVE Merged(_)
Merged(extents) ==
    IF Len(extents) < 2 THEN extents
    ELSE IF extents[1].text = extents[2].text THEN Merged(Tail(extents))
    ELSE <<extents[1]>> \o Merged(Tail(extents))
\* write(fd, ...) of count bytes of text at offset pos: the bytes replace
\* what the file has there; a file that ends before pos is filled up with
\* zero bytes
WriteAt(extents, pos, text, count) ==
    LET below == Cardinality({i \in 1..Len(extents) : From(extents, i) < pos})
        before == [i \in 1..below |->
                      Extent(Min(extents[i].upto, pos), extents[i].text)]
        gap == IF Size(extents) < pos THEN <<Extent(pos, Nul)>> ELSE <<>>
        beyond(e) == e.upto > pos + count
    IN  Merged(before \o gap \o <<Extent(pos + count, text)>>
               \o SelectSeq(extents, beyond))

\* f.read() (FileIO.readall): fstat gives the size of the file; the buffer
\* is one byte larger, or SMALLCHUNK for an empty file
FirstBufferSize(size) == IF size > 0 THEN size + 1 ELSE SMALLCHUNK
\* a buffer that is full grows before the next read
NewBufferSize(currentsize) ==
    currentsize
    + Max(SMALLCHUNK,
          IF currentsize > 65536 THEN currentsize \div 8
          ELSE 256 + currentsize)
\* the bytes a read asks for
Asked(bufsize, bytes_read) ==
    (IF bytes_read >= bufsize THEN NewBufferSize(bytes_read) ELSE bufsize)
    - bytes_read
\* read(fd, ...) of count bytes at offset pos: the extents it returns, none
\* at or beyond the end of the file
ReadAt(extents, pos, count) ==
    LET in(i) == From(extents, i) < pos + count /\ extents[i].upto > pos
        first == Cardinality({i \in 1..Len(extents) : extents[i].upto <= pos})
        n == Cardinality({i \in 1..Len(extents) : in(i)})
    IN  [k \in 1..n |->
            Extent(Min(extents[first + k].upto, pos + count),
                   extents[first + k].text)]

\* the characters of the bytes from..upto of a document, from at or
\* after its first record: those of the records the bytes are of, each
\* with the ", " before it, and of what follows the last record.  lo
\* records end at or before from, the first hi begin before upto.
SegmentChars(data, lo, hi, closing) ==
    Flat([k \in 1..(hi - lo) |->
             (IF lo + k = 1 THEN <<>> ELSE Comma)
             \o Flat(RecordTokens(data[lo + k]))])
    \o (IF closing THEN <<"]", "}">> ELSE <<>>)
SegmentsRegion(data, starts, ends, lo, hi, from, upto) ==
    SubSeq(SegmentChars(data, lo, hi, upto > ends[Len(ends)]),
           from - (IF lo = 0 THEN starts[1] ELSE ends[lo]) + 1,
           upto - (IF lo = 0 THEN starts[1] ELSE ends[lo]))
RecordsBetween(data, starts, ends, from, upto) ==
    SegmentsRegion(data, starts, ends, CountTo(ends, from),
                   Min(Len(data), 1 + CountTo(ends, upto - 1)), from, upto)
RecordsRegion(doc, from, upto) ==
    RecordsBetween(doc.data, RecordStarts(doc), RecordEnds(doc), from, upto)
\* the characters of the bytes from..upto of text
TextRegion(text, from, upto) ==
    IF text.kind = "nul" THEN Rep("nul", upto - from)
    ELSE IF /\ text.kind = "document" /\ text.data # <<>>
            /\ from > ListStart(text)
    THEN RecordsRegion(text, from, upto)
    ELSE SubSeq(TextChars(text), from + 1, upto)
\* the characters of the bytes from..upto of what the extents hold
RegionChars(extents, from, upto) ==
    Flat([i \in 1..Len(extents) |->
            LET a == Max(From(extents, i), from)
                b == Min(extents[i].upto, upto)
            IN  IF a < b THEN TextRegion(extents[i].text, a, b) ELSE <<>>])

\* json.load: the state of the decoder between two characters.  phase is
\* what it expects or is in, stack the objects ("o") and lists ("l") that
\* are open, str the string or number it is in; of the object at the top
\* it keeps the values of "timestamp" and "data", and of every object in
\* the list of "data" the values of name, number, line1 and line2.
NoFields == [object |-> FALSE, name |-> <<>>, number |-> -1,
             line1 |-> <<>>, line2 |-> <<>>]
Decoding(phase, stack, data) ==
    [phase |-> phase, stack |-> stack, role |-> "val", str |-> <<>>,
     key |-> <<>>, top |-> "none",
     has_ts |-> FALSE, ts_kind |-> "none", ts_str |-> <<>>,
     has_data |-> FALSE, data_list |-> FALSE, in_data |-> FALSE,
     data |-> data, el |-> NoFields, el_key |-> <<>>]
DecodeStart == Decoding("value", <<>>, <<>>)

\* the two digits of s at position i, -1 if they are not there
TwoDigits(s, i) ==
    IF Len(s) > i /\ s[i] \in DigitChars /\ s[i + 1] \in DigitChars
    THEN 10 * DigitVal(s[i]) + DigitVal(s[i + 1])
    ELSE -1
\* a decoded element of the list, described as a record is: category and
\* position as its name gives them, and the fetches its name and lines
\* are of
Described(el) ==
    LET named == Len(el.name) > 1 /\ el.name[2] \in DigitChars
    IN  [cat |-> IF named THEN DigitVal(el.name[2]) ELSE 0,
         num |-> IF named THEN TwoDigits(el.name, 4) ELSE 0,
         number |-> el.number,
         gens |-> {TwoDigits(s, 10) : s \in {el.line1, el.line2} \ {<<>>}}
                  \cup {TwoDigits(s, 7) : s \in {el.name} \ {<<>>}}]

\* a value has ended; the stack is that of the value's container
ValueDone(s, kind) ==
    LET depth == Len(s.stack)
        after == [s EXCEPT !.phase = "comma"]
    IN  IF depth = 0 THEN [after EXCEPT !.top = kind]
        ELSE IF depth = 1 /\ s.stack[1] = "o" /\ s.key = TimestampKey
        THEN [after EXCEPT !.has_ts = TRUE, !.ts_kind = kind,
                           !.ts_str = s.str]
        ELSE IF depth = 1 /\ s.stack[1] = "o" /\ s.key = DataKey
        THEN [after EXCEPT !.has_data = TRUE, !.data_list = (kind = "list"),
                           !.in_data = FALSE,
                           !.data = IF kind = "list" THEN @ ELSE <<>>]
        ELSE IF s.in_data /\ depth = 2
        THEN [after EXCEPT !.data =
                 Append(@, Described(IF kind = "object" THEN s.el
                                     ELSE NoFields))]
        ELSE IF s.in_data /\ depth = 3 /\ s.stack[3] = "o"
        THEN [after EXCEPT !.el =
                 IF s.el_key = NameKey
                 THEN [@ EXCEPT !.name = IF kind = "string" THEN s.str ELSE <<>>]
                 ELSE IF s.el_key = Line1Key
                 THEN [@ EXCEPT !.line1 = IF kind = "string" THEN s.str ELSE <<>>]
                 ELSE IF s.el_key = Line2Key
                 THEN [@ EXCEPT !.line2 = IF kind = "string" THEN s.str ELSE <<>>]
                 ELSE IF s.el_key = NumberKey
                 THEN [@ EXCEPT !.number = IF kind = "number"
                                           THEN DigitsToInt(s.str) ELSE -1]
                 ELSE @]
        ELSE after
Failed(s) == [s EXCEPT !.phase = "error"]
Popped(s) == [s EXCEPT !.stack = SubSeq(@, 1, Len(@) - 1)]
\* a value begins with c
ValueStart(s, c) ==
    CASE c = "{" ->
             [s EXCEPT !.phase = "first", !.stack = Append(@, "o"),
                       !.el = IF s.in_data /\ Len(s.stack) = 2
                              THEN [NoFields EXCEPT !.object = TRUE] ELSE @]
      [] c = "[" ->
             [s EXCEPT !.phase = "item", !.stack = Append(@, "l"),
                       !.in_data = @ \/ (s.stack = <<"o">> /\ s.key = DataKey),
                       !.data = IF s.stack = <<"o">> /\ s.key = DataKey
                                THEN <<>> ELSE @]
      [] c = "\"" -> [s EXCEPT !.phase = "string", !.role = "val", !.str = <<>>]
      [] c = "0" -> [s EXCEPT !.phase = "zero", !.str = <<c>>]
      [] c \in DigitChars \ {"0"} -> [s EXCEPT !.phase = "number", !.str = <<c>>]
      [] OTHER -> Failed(s)
\* after a value: a comma, or the end of the container
AfterValue(s, c) ==
    LET top == IF s.stack = <<>> THEN "none" ELSE s.stack[Len(s.stack)]
    IN  CASE c = " " -> s
          [] c = "," /\ top = "o" -> [s EXCEPT !.phase = "key"]
          [] c = "," /\ top = "l" -> [s EXCEPT !.phase = "value"]
          [] c = "}" /\ top = "o" -> ValueDone(Popped(s), "object")
          [] c = "]" /\ top = "l" -> ValueDone(Popped(s), "list")
          [] OTHER -> Failed(s)
\* the decoder takes the character c.  Outside a string it takes the
\* characters of JSON only: the texts of the model spell none of null,
\* true, false, NaN and Infinity, and in none of them a sign, a fraction
\* or an exponent is followed by a comma or a bracket.
Step(s, c) ==
    CASE s.phase = "error" -> s
      [] s.phase = "string" ->
             IF c = "\""
             THEN IF s.role = "key"
                  THEN [s EXCEPT !.phase = "colon",
                                 !.key = IF Len(s.stack) = 1 THEN s.str ELSE @,
                                 !.el_key = IF Len(s.stack) = 3 THEN s.str ELSE @]
                  ELSE ValueDone(s, "string")
             ELSE IF c = "nul" THEN Failed(s)
             ELSE [s EXCEPT !.str = Append(@, c)]
      [] s.phase = "number" ->
             IF c \in DigitChars THEN [s EXCEPT !.str = Append(@, c)]
             ELSE AfterValue(ValueDone(s, "number"), c)
      [] s.phase = "zero" ->
             IF c \in DigitChars THEN Failed(s)
             ELSE AfterValue(ValueDone(s, "number"), c)
      [] s.phase = "value" -> IF c = " " THEN s ELSE ValueStart(s, c)
      [] s.phase = "item" ->
             IF c = " " THEN s
             ELSE IF c = "]" THEN ValueDone(Popped(s), "list")
             ELSE ValueStart(s, c)
      [] s.phase \in {"first", "key"} ->
             IF c = " " THEN s
             ELSE IF c = "\""
             THEN [s EXCEPT !.phase = "string", !.role = "key", !.str = <<>>]
             ELSE IF c = "}" /\ s.phase = "first"
             THEN ValueDone(Popped(s), "object")
             ELSE Failed(s)
      [] s.phase = "colon" ->
             IF c = " " THEN s
             ELSE IF c = ":" THEN [s EXCEPT !.phase = "value"]
             ELSE Failed(s)
      [] s.phase = "comma" -> AfterValue(s, c)
\* the decoder takes the characters lo..hi of chars
RECURSIVE Decode(_, _, _, _)
Decode(s, chars, lo, hi) ==
    IF s.phase = "error" \/ lo > hi THEN s
    ELSE IF lo = hi THEN Step(s, chars[lo])
    ELSE LET mid == (lo + hi) \div 2
         IN  Decode(Decode(s, chars, lo, mid), chars, mid + 1, hi)
\* the end of the text: the value at the top must be complete
DecodeEnd(s) ==
    IF s.stack = <<>> /\ s.phase \in {"number", "zero"}
    THEN ValueDone(s, "number")
    ELSE IF s.stack = <<>> /\ s.phase = "comma" THEN s
    ELSE Failed(s)

\* datetime.fromisoformat of a string of the model: the hour, whether the
\* microseconds are other than 0, and whether the string carries a UTC
\* offset
IsoForms ==
    {[chars |-> IsoFormat(h, frac) \o offset, hour |-> h, frac |-> frac,
      aware |-> (offset # <<>>)] :
        h \in 0..23, frac \in BOOLEAN, offset \in {<<>>, UtcOffset}}
FromIsoFormat(date_string) ==
    IF \E f \in IsoForms : f.chars = date_string
    THEN LET f == CHOOSE g \in IsoForms : g.chars = date_string
         IN  [exc |-> "none", hour |-> f.hour, frac |-> f.frac,
              aware |-> f.aware]
    ELSE [exc |-> "ValueError", hour |-> 0, frac |-> FALSE, aware |-> FALSE]

\* json.load(f), cache_data["timestamp"] and datetime.fromisoformat(...)
\* (lines 20-21): the exception raised ("none" if none), the timestamp
\* (hour, and whether its microseconds are other than 0), whether it
\* carries a UTC offset, whether there is "data", and the data
Loaded(exc, ts, frac, aware, has_data, data) ==
    [exc |-> exc, ts |-> ts, frac |-> frac, aware |-> aware,
     has_data |-> has_data, data |-> data]
Raised(exc, has_data) == Loaded(exc, 0, FALSE, FALSE, has_data, <<>>)
LoadedAt(s, iso) ==
    IF s.phase = "error" THEN Raised("JSONDecodeError", FALSE)
    ELSE IF s.top # "object" THEN Raised("TypeError", FALSE)
    ELSE IF ~s.has_ts THEN Raised("KeyError", s.has_data)
    ELSE IF s.ts_kind # "string" THEN Raised("TypeError", s.has_data)
    ELSE IF iso.exc # "none" THEN Raised(iso.exc, s.has_data)
    ELSE Loaded("none", iso.hour, iso.frac, iso.aware, s.has_data, s.data)
LoadDecoded(s) == LoadedAt(s, FromIsoFormat(s.ts_str))
DecodeAll(s, chars) == Decode(s, chars, 1, Len(chars))
\* the whole of what was read is decoded
LoadChars(extents) ==
    LoadDecoded(DecodeEnd(DecodeAll(DecodeStart,
                                    RegionChars(extents, 0, Size(extents)))))
\* what was read begins with the bytes of a document (head) up to a record
\* that begins at or before the end of the first extent, the i-th, and
\* ends with bytes of a document (tail) in which the j-th record is the
\* first to end at or after the last change of text: the decoder is run
\* from the one to the other, or to the end when it is then not between
\* two records of the list
Begun(head, i) ==
    [Decoding(IF i = 1 THEN "item" ELSE "value", <<"o", "l">>,
              SubSeq(head.data, 1, i - 1))
        EXCEPT !.key = DataKey, !.in_data = TRUE, !.has_ts = TRUE,
               !.ts_kind = "string",
               !.ts_str = IsoFormat(head.ts, head.frac)]
Continued(extents, head, tail, j, between, stop, s) ==
    IF between /\ s.phase = "comma" /\ s.stack = <<"o", "l">> /\ s.in_data
    THEN IF Size(extents) = TextLen(tail)
         THEN Loaded("none", head.ts, head.frac, FALSE, TRUE,
                     s.data \o SubSeq(tail.data, j + 1, Len(tail.data)))
         ELSE Raised("JSONDecodeError", FALSE)
    ELSE LoadDecoded(DecodeEnd(
             DecodeAll(s, RegionChars(extents, stop, Size(extents)))))
MixedBetween(extents, head, tail, from, i, j, between, stop) ==
    Continued(extents, head, tail, j, between, stop,
              DecodeAll(Begun(head, i), RegionChars(extents, from, stop)))
MixedAt(extents, head, tail, starts, ends, i, j) ==
    MixedBetween(extents, head, tail, starts[i], i, j,
                 j <= Len(ends) /\ ends[Min(j, Len(ends))] <= Size(extents),
                 IF j <= Len(ends) /\ ends[Min(j, Len(ends))] <= Size(extents)
                 THEN ends[j] ELSE Size(extents))
MixedOf(extents, head, tail, starts, ends) ==
    MixedAt(extents, head, tail, starts, ends,
            CountTo(starts, extents[1].upto),
            1 + CountTo(ends, extents[Len(extents) - 1].upto - 1))
LoadMixed(extents) ==
    MixedOf(extents, extents[1].text, extents[Len(extents)].text,
            RecordStarts(extents[1].text),
            RecordEnds(extents[Len(extents)].text))
LoadJson(extents) ==
    IF extents = <<>> THEN Raised("JSONDecodeError", FALSE)
    ELSE IF Len(extents) = 1 /\ extents[1].text.kind = "document"
    THEN IF extents[1].upto = TextLen(extents[1].text)
         THEN Loaded("none", extents[1].text.ts, extents[1].text.frac,
                     FALSE, TRUE, extents[1].text.data)
         ELSE Raised("JSONDecodeError", FALSE)
    ELSE IF /\ extents[1].text.kind = "document"
            /\ extents[Len(extents)].text.kind = "document"
            /\ extents[1].text.data # <<>>
            /\ RecordStart(extents[1].text, 1) <= extents[1].upto
    THEN LoadMixed(extents)
    ELSE LoadChars(extents)

\* a time: the hour, and whether the microseconds are other than 0
Instant(hour, frac) == [hour |-> hour, frac |-> frac]
Instants == [hour : 0..MaxClock, frac : BOOLEAN]
NotAfter(a, b) == a.hour < b.hour \/ (a.hour = b.hour /\ (b.frac \/ ~a.frac))
\* datetime.utcnow() - last_fetched_time < timedelta(hours=...)
Within(now, last_fetched_time) ==
    \/ now.hour - last_fetched_time.hour < CACHE_DURATION_HOURS
    \/ /\ now.hour - last_fetched_time.hour = CACHE_DURATION_HOURS
       /\ last_fetched_time.frac /\ ~now.frac
\* the exceptions of the except clause of line 25
CacheErrors == {"JSONDecodeError", "KeyError", "ValueError"}
\* lines 21-24 for what json.load returned: "hit" when cache_data["data"]
\* is returned, "miss" when the timestamp is too old, otherwise the
\* exception raised
Outcome(cache_data, now) ==
    IF cache_data.exc # "none" THEN cache_data.exc
    ELSE IF cache_data.aware THEN "TypeError"
    ELSE IF ~Within(now, Instant(cache_data.ts, cache_data.frac)) THEN "miss"
    ELSE IF ~cache_data.has_data THEN "KeyError"
    ELSE "hit"
Looked(cache_data, now) ==
    [outcome |-> Outcome(cache_data, now), data |-> cache_data.data]
\* lines 20-24: the outcome, and the data json.load returned
ReadCache(extents, now) == Looked(LoadJson(extents), now)

\* a caller outside any call
NoCall ==
    [pc |-> "idle", n |-> 0, file0 |-> NoFile,
     t_call |-> Instant(0, FALSE), now |-> Instant(0, FALSE), bufsize |-> 0, buf |-> <<>>,
     pos |-> 0, hit |-> FALSE, exc |-> "none", gen |-> 0, cat |-> 1,
     requests |-> 0, unique_objects |-> <<>>, doc |-> Nul,
     writes |-> <<>>, pending |-> 0, result |-> <<>>]

CacheIdle ==
    /\ clock = Instant(0, FALSE) /\ cache_file = NoFile /\ net_gen = 0
    /\ calls = [p \in Procs |-> NoCall]

\* the batches an earlier fetch (numbered 0) can have left in the cache
RECURSIVE ObjectLists(_, _)
ObjectLists(cat, gen) ==
    IF cat > NumCategories THEN {<<>>}
    ELSE LET rest == ObjectLists(cat + 1, gen)
         IN  rest \cup {CategoryRecords(cat, gen) \o r : r \in rest}
\* the batch of a fetch all of whose requests succeeded
FullList(gen) == CHOOSE l \in ObjectLists(1, gen) :
                     Len(l) = NumCategories * PerCategory
\* the text fetch 0 wrote at hour 0 with all of its requests answered
FullDocument == Document(0, TRUE, 0, FullList(0))

\* the cache files a call can find: none, a path that cannot be opened, a
\* complete file, one whose write did not finish (nothing written, the
\* writes before the last, a text cut after its first record), and texts
\* the function does not write
CompleteFiles ==
    {Whole(Document(0, frac, 0, l)) :
        l \in ObjectLists(1, 0), frac \in BOOLEAN}
IncompleteFiles ==
    {Written(FullDocument, count) :
        count \in {0, RecordEnd(FullDocument, 1)}
                  \cup {SumOf(JsonDump(FullDocument).writes)}}
ForeignFiles == {Whole(Foreign(kind, 0)) : kind \in ForeignKinds}
InitialFiles ==
    {NoFile, Unopenable} \cup CompleteFiles \cup IncompleteFiles
    \cup ForeignFiles

\* one caller, any cache file, the clock in hour 0
CacheInitOne ==
    /\ clock = Instant(0, TRUE) /\ net_gen = 0
    /\ cache_file \in InitialFiles
    /\ calls = [p \in Procs |-> NoCall]

\* two callers; no cache file, the complete batch of fetch 0 that is fresh
\* (hour 0) or has expired (hour CACHE_DURATION_HOURS), or what a caller
\* that was stopped in json.dump left of it
CacheInitTwo ==
    /\ clock \in {Instant(0, TRUE), Instant(CACHE_DURATION_HOURS, TRUE)}
    /\ net_gen = 0
    /\ cache_file \in
           {NoFile, Whole(FullDocument),
            Written(FullDocument, SumOf(JsonDump(FullDocument).writes))}
    /\ calls = [p \in Procs |-> NoCall]

Others == <<decVars, cvVars, aggVars, riskVars, apiVars>>

\* the fields of a call that goes on to the network: line 29
StartFetch(c, g) ==
    [c EXCEPT !.pc = "fetch", !.gen = g, !.cat = 1, !.requests = 0,
              !.unique_objects = <<>>]

\* get_all_trackable_objects() is called, by a caller that makes at most
\* most calls
Call(p, most) ==
    /\ calls[p].pc \in {"idle", "returned", "raised"}
    /\ calls[p].n < most
    /\ calls' = [calls EXCEPT ![p] =
                    [NoCall EXCEPT !.pc = "exists", !.n = calls[p].n + 1,
                                   !.file0 = cache_file, !.t_call = clock]]
    /\ UNCHANGED <<clock, cache_file, net_gen>>
    /\ UNCHANGED Others

\* line 17: os.path.exists(CACHE_FILE)
CheckExists(p) ==
    /\ calls[p].pc = "exists"
    /\ IF cache_file.exists
       THEN /\ calls' = [calls EXCEPT ![p].pc = "open_r"]
            /\ UNCHANGED net_gen
       ELSE /\ calls' = [calls EXCEPT ![p] = StartFetch(@, net_gen + 1)]
            /\ net_gen' = net_gen + 1
    /\ UNCHANGED <<clock, cache_file>>
    /\ UNCHANGED Others

\* line 18: open(CACHE_FILE, 'r'), outside the try block: the OSError of a
\* path that cannot be opened leaves the function
OpenRead(p) ==
    /\ calls[p].pc = "open_r"
    /\ calls' = IF cache_file.opens
                THEN [calls EXCEPT ![p].pc = "fstat"]
                ELSE [calls EXCEPT ![p].pc = "raised", ![p].exc = "OSError"]
    /\ UNCHANGED <<clock, cache_file, net_gen>>
    /\ UNCHANGED Others

\* line 20, json.load: f.read() asks for the size of the file
Fstat(p) ==
    /\ calls[p].pc = "fstat"
    /\ calls' = [calls EXCEPT
                    ![p].pc = "read",
                    ![p].bufsize = FirstBufferSize(Size(cache_file.extents))]
    /\ UNCHANGED <<clock, cache_file, net_gen>>
    /\ UNCHANGED Others

\* line 20, json.load: f.read() reads, at the offset it has reached, what
\* the file holds now; a read that returns nothing ends it
Read(p) ==
    /\ calls[p].pc = "read"
    /\ \E count \in {Asked(calls[p].bufsize, Size(calls[p].buf))} :
          \E got \in {ReadAt(cache_file.extents, Size(calls[p].buf), count)} :
             calls' =
                 IF got = <<>> THEN [calls EXCEPT ![p].pc = "load"]
                 ELSE [calls EXCEPT
                          ![p].bufsize = Size(calls[p].buf) + count,
                          ![p].buf = Merged(@ \o got)]
    /\ UNCHANGED <<clock, cache_file, net_gen>>
    /\ UNCHANGED Others

\* lines 20-26: json.load decodes what was read; a hit returns
\* cache_data["data"], an exception of line 25 and an old timestamp go on to
\* the network, any other exception leaves the function
LoadCache(p) ==
    /\ calls[p].pc = "load"
    /\ \E r \in {ReadCache(calls[p].buf, clock)} :
          IF r.outcome = "hit"
          THEN /\ calls' = [calls EXCEPT
                               ![p].pc = "returned", ![p].now = clock,
                               ![p].hit = TRUE, ![p].result = r.data]
               /\ UNCHANGED net_gen
          ELSE IF r.outcome \in CacheErrors \cup {"miss"}
          THEN /\ calls' = [calls EXCEPT ![p] =
                               StartFetch([@ EXCEPT !.now = clock],
                                          net_gen + 1)]
               /\ net_gen' = net_gen + 1
          ELSE /\ calls' = [calls EXCEPT ![p].pc = "raised",
                                         ![p].now = clock,
                                         ![p].exc = r.outcome]
               /\ UNCHANGED net_gen
    /\ UNCHANGED <<clock, cache_file>>
    /\ UNCHANGED Others

\* lines 48-71: one category is requested; the request fails or delivers
\* the category's records
FetchCategory(p) ==
    /\ calls[p].pc = "fetch" /\ calls[p].cat <= NumCategories
    /\ \E ok \in BOOLEAN :
          calls' = [calls EXCEPT
                       ![p].requests = @ + 1,
                       ![p].cat = @ + 1,
                       ![p].unique_objects =
                           IF ok
                           THEN @ \o CategoryRecords(calls[p].cat, calls[p].gen)
                           ELSE @]
    /\ UNCHANGED <<clock, cache_file, net_gen>>
    /\ UNCHANGED Others

\* lines 73-76: open(CACHE_FILE, 'w') truncates the file
OpenWrite(p) ==
    /\ calls[p].pc = "fetch" /\ calls[p].cat > NumCategories
    /\ cache_file' = File(<<>>)
    /\ calls' = [calls EXCEPT ![p].pc = "dump", ![p].pos = 0]
    /\ UNCHANGED <<clock, net_gen>>
    /\ UNCHANGED Others

\* lines 77-81: the timestamp is taken and json.dump begins
DumpContent(p) ==
    /\ calls[p].pc = "dump"
    /\ \E doc \in {Document(clock.hour, clock.frac, calls[p].gen,
                             calls[p].unique_objects)} :
          \E f \in {JsonDump(doc)} :
             calls' = [calls EXCEPT
                          ![p].pc = "write", ![p].doc = doc,
                          ![p].writes = f.writes, ![p].pending = f.pending]
    /\ UNCHANGED <<clock, cache_file, net_gen>>
    /\ UNCHANGED Others

\* line 81: json.dump has produced more than f collects; f writes what it
\* has collected at its offset of the file
Flush(p) ==
    /\ calls[p].pc = "write" /\ calls[p].writes # <<>>
    /\ cache_file' = File(WriteAt(cache_file.extents, calls[p].pos,
                                  calls[p].doc, Head(calls[p].writes)))
    /\ calls' = [calls EXCEPT ![p].pos = @ + Head(calls[p].writes),
                              ![p].writes = Tail(@)]
    /\ UNCHANGED <<clock, net_gen>>
    /\ UNCHANGED Others

\* lines 81-84: the with block closes f, which writes what is pending;
\* object_list is returned
ReturnFetched(p) ==
    /\ calls[p].pc = "write" /\ calls[p].writes = <<>>
    /\ cache_file' =
           IF calls[p].pending = 0 THEN cache_file
           ELSE File(WriteAt(cache_file.extents, calls[p].pos,
                             calls[p].doc, calls[p].pending))
    /\ calls' = [calls EXCEPT ![p].pc = "returned",
                              ![p].pos = @ + calls[p].pending,
                              ![p].pending = 0,
                              ![p].result = calls[p].unique_objects]
    /\ UNCHANGED <<clock, net_gen>>
    /\ UNCHANGED Others

\* time passes, to the next hour or into it
Tick ==
    /\ clock.hour < MaxClock
    /\ \E frac \in BOOLEAN : clock' = Instant(clock.hour + 1, frac)
    /\ UNCHANGED <<cache_file, net_gen, calls>>
    /\ UNCHANGED Others

-----------------------------------------------------------------------------
(* The specifications of the components: each starts one component on its  *)
(* inputs and leaves the others idle.                                      *)

ApiIdle ==
    /\ request = [path |-> "none"] /\ all_objects = <<>>
    /\ api_pc = "idle" /\ response = PyNone

InitDecoder == DecInit /\ CvIdle /\ AggIdle /\ RiskIdle /\ ApiIdle /\ CacheIdle
NextDecoder == ParseAndGetValue
SpecDecoder == InitDecoder /\ [][NextDecoder]_vars

InitConverter == DecIdle /\ CvInit /\ AggIdle /\ RiskIdle /\ ApiIdle /\ CacheIdle
NextConverter == ConvertPublic \/ ConvertPrivate
SpecConverter == InitConverter /\ [][NextConverter]_vars

InitRisk == DecIdle /\ CvIdle /\ AggIdle /\ RiskInit /\ ApiIdle /\ CacheIdle
NextRisk == CallSteady \/ CallAscent
SpecRisk == InitRisk /\ [][NextRisk]_vars

InitApi == DecIdle /\ CvIdle /\ AggIdle /\ RiskIdle /\ ApiInit /\ CacheIdle
NextApi ==
    \/ HandleOrbitRisk \/ HandleTakeoffRisk
    \/ HandleRoute1 \/ HandleRoute2 \/ HandleNoRoute
SpecApi == InitApi /\ [][NextApi]_vars

\* overlapping calls of get_all_trackable_objects: every caller makes one
InitCache == DecIdle /\ CvIdle /\ AggIdle /\ RiskIdle /\ ApiIdle /\ CacheInitTwo
NextCache ==
    \E p \in Procs :
        \/ Call(p, 1) \/ CheckExists(p) \/ OpenRead(p)
        \/ Fstat(p) \/ Read(p) \/ LoadCache(p)
        \/ FetchCategory(p) \/ OpenWrite(p) \/ DumpContent(p)
        \/ Flush(p) \/ ReturnFetched(p)
SpecCache == InitCache /\ [][NextCache]_vars

\* calls of get_all_trackable_objects one after the other, hours apart
InitCacheOne == DecIdle /\ CvIdle /\ AggIdle /\ RiskIdle /\ ApiIdle /\ CacheInitOne
NextCacheOne ==
    \/ Call(1, MaxCalls) \/ CheckExists(1) \/ OpenRead(1)
    \/ Fstat(1) \/ Read(1) \/ LoadCache(1)
    \/ FetchCategory(1) \/ OpenWrite(1) \/ DumpContent(1)
    \/ Flush(1) \/ ReturnFetched(1)
    \/ Tick
SpecCacheOne == InitCacheOne /\ [][NextCacheOne]_vars

\* the aggregator
Init == DecIdle /\ CvIdle /\ AggInit /\ RiskIdle /\ ApiIdle /\ CacheIdle
Next == AggStart \/ AggStep \/ AggReturn
Spec == Init /\ [][Next]_vars

-----------------------------------------------------------------------------
(* The properties, by claim.                                               *)

\* C1: for every batch and window the aggregator returns a pair (congestion
\* map, filtered record list), and the counts of the map's cells sum to the
\* length of the filtered list.
C1_ReturnsMapAndFilteredList ==
    agg_pc = "done" =>
        /\ agg_return.type = "tuple"
        /\ SumCounts(agg_return.value[1]) = Len(agg_return.value[2])
\* a call that returned after counting at least two records
C1_Witness ==
    /\ agg_pc = "done"
    /\ agg_return.type = "dict"
    /\ SumCounts(agg_return.value) >= 2

\* the mean-motion windows of each altitude window, computed once
WindowFilters == [w \in Windows |-> MeanMotionFilters(w)]

\* every order of the records of a batch
Reorderings(s) ==
    {[i \in 1..Len(s) |-> s[p[i]]] :
        p \in {q \in [1..Len(s) -> 1..Len(s)] :
                  \A i, j \in 1..Len(s) : q[i] = q[j] => i = j}}

\* two doubles that differ, relative to the second, by no more than the
\* floating-point tolerance 2^-48 (sixteen units in the last place)
Tolerance == <<1, <<1>>, -48>>
Close(a, b) == FLe(FAbs(FSub(a, b)), FMul(Tolerance, FAbs(b)))
\* two congestion maps with the same keys, the same count per cell and the
\* same averages per cell
SameCells(m1, m2) ==
    /\ DOMAIN m1 = DOMAIN m2
    /\ \A k \in DOMAIN m1 :
           /\ m1[k].count = m2[k].count
           /\ Close(m1[k].avg_inclination, m2[k].avg_inclination)
           /\ Close(m1[k].avg_mean_motion, m2[k].avg_mean_motion)

\* C2: aggregation is order-independent: every permutation of the batch,
\* aggregated with the same window, gives the same cell keys, the same count
\* per cell and the same avg_inclination and avg_mean_motion per cell (the
\* doubles agree within the floating-point tolerance).
\* (filters is the mean-motion window of the call, so the fold below is
\* calculate_orbit_congestion_by_altitude(p, window))
C2_OrderIndependent ==
    agg_pc = "done" =>
        /\ filters \in WindowFilters[window]
        /\ \A p \in Reorderings(tle_data_dicts) :
               SameCells(FoldRecords(EmptyMap, p, filters, window),
                         agg_return.value)
\* a call that put all records of a batch, not all of the same mean motion,
\* into one cell, where another order of the batch ends on another double
C2_Witness ==
    /\ agg_pc = "done"
    /\ Len(tle_data_dicts) >= 2
    /\ \E k \in DOMAIN agg_return.value :
           agg_return.value[k].count = Len(tle_data_dicts)
    /\ \E i, j \in 1..Len(tle_data_dicts) :
           tle_data_dicts[i].mean_motion # tle_data_dicts[j].mean_motion
    /\ \E p \in Reorderings(tle_data_dicts) :
           FoldRecords(EmptyMap, p, filters, window) # agg_return.value

\* C3: a token with a sign after its first character is mantissa x
\* 10^exponent, the mantissa with an implied leading "0.": "12345-6" decodes
\* to 0.12345e-6, "-12345-6" to -0.12345e-6 and "12345+3" to 0.12345e+3.
C3_AssumedExponent ==
    dec_pc = "returned" /\ start = 1 /\ end = Len(line) =>
        /\ line = <<"1", "2", "3", "4", "5", "-", "6">>
               => dec_result = Dec(12345, -11)
        /\ line = <<"-", "1", "2", "3", "4", "5", "-", "6">>
               => dec_result = Dec(-12345, -11)
        /\ line = <<"1", "2", "3", "4", "5", "+", "3">>
               => dec_result = Dec(12345, -2)
\* the decoder has returned from the field "12345-6"
C3_Witness ==
    /\ dec_pc = "returned"
    /\ line = <<"1", "2", "3", "4", "5", "-", "6">>
    /\ start = 1 /\ end = Len(line)

\* the characters of the 1-indexed inclusive columns start..end that the
\* line has, trimmed
ColumnField(ln, st, en) == PyStrip(SubSeq(ln, Max(1, st), Min(en, Len(ln))))

\* C4: the decoder is total: for every line and every (start, end) it returns
\* a number and never raises; a field blank after trimming, a column range
\* outside the line, a lone sign and a non-numeric residue all give 0.0.
C4_TotalAndZeroOnFailure ==
    dec_pc # "call" =>
        /\ dec_pc = "returned"
        /\ LET field == ColumnField(line, start, end)
           IN  (field = <<>> \/ field \in {<<"+">>, <<"-">>} \/ Contains(field, "x"))
                   => dec_result = Zero
\* the decoder has returned from a column range that lies before the line
C4_Witness ==
    /\ dec_pc = "returned"
    /\ end < 1 /\ start <= end /\ Len(line) >= 2

\* a record the claim calls usable
Usable(r) ==
    /\ r.line1 = "full" /\ r.line2 = "full"
    /\ r.mean_motion # Zero /\ r.inclination # Zero

\* C5: a record with a missing or short element line, a zero mean motion or
\* a zero inclination contributes to nothing, even when the windows include
\* its values: the map is the map of the usable records alone.
C5_UnusableExcluded ==
    agg_pc = "done" =>
        /\ filters \in MeanMotionFilters(window)
        /\ agg_return =
               PyDict(FoldRecords(EmptyMap, SelectSeq(tle_data_dicts, Usable),
                                  filters, window))
\* a call on a record of inclination zero with two full lines, under a
\* window that includes inclination 0
C5_Witness ==
    /\ agg_pc = "done"
    /\ window.min_inclination = Zero
    /\ \E i \in 1..Len(tle_data_dicts) :
           /\ tle_data_dicts[i].inclination = Zero
           /\ tle_data_dicts[i].line1 = "full" /\ tle_data_dicts[i].line2 = "full"
           /\ tle_data_dicts[i].sat = "ok"
           /\ InWindow(filters, window, tle_data_dicts[i].mean_motion, Zero)

\* C6: the conversion returns 0.0 for every altitude <= 0, altitude 0
\* included, in the public converter and in the one the aggregator uses.
C6_SentinelAtOrBelowZero ==
    cv_pc = "returned" /\ FLe(cv_altitude, Zero) => cv_result = Zero
\* the aggregator's converter has returned from altitude 0
C6_Witness ==
    cv_pc = "returned" /\ cv_which = "orbit" /\ cv_altitude = Zero

\* C7: when the volume is <= 0 the estimator returns a result of the shape
\* of every other result, with financial_risk 0.0 and collision_risk 0.
C7_ZeroRiskResult ==
    risk_pc = "returned" /\ FLe(risk_locals.volume, Zero) =>
        /\ risk_return.type = "dict"
        /\ risk_return.value.financial_risk = Zero
        /\ risk_return.value.collision_risk = Zero
\* an estimator has returned from a volume that is not positive
C7_Witness ==
    risk_pc = "returned" /\ FLe(risk_locals.volume, Zero)

\* C8: for all numeric inputs, negative ones included, the collision_risk
\* returned is within 0..1 and the financial_risk returned is >= 0.
C8_RiskWithinRange ==
    risk_pc = "returned" /\ risk_return.type = "dict" =>
        /\ FLe(Zero, risk_return.value.collision_risk)
        /\ FLe(risk_return.value.collision_risk, FromInt(1))
        /\ FLe(Zero, risk_return.value.financial_risk)
\* an estimator has returned a result for a negative cross-section
C8_Witness ==
    /\ risk_pc = "returned" /\ risk_return.type = "dict"
    /\ risk_mode = "steady" /\ FLt(risk_args.A_effective, Zero)
    /\ FLt(Zero, risk_args.N_objects)

\* rate = (N / volume) x V_rel x area_km2 x duration_seconds
CollisionRate(N_objects, volume, V_rel, area_km2, seconds) ==
    FMul(FMul(FMul(FDiv(N_objects, volume), V_rel), area_km2), seconds)

\* C9: the steady-orbit estimator uses its cross-section as km2 without
\* further scaling, the ascent estimator divides its m2 cross-section by
\* 1e6; in both the rate is (N / volume) x V_rel x area_km2 x seconds.
C9_AreaUnits ==
    risk_pc = "returned" /\ FLt(Zero, risk_locals.volume) =>
        risk_locals.expected_collisions =
            IF risk_mode = "steady"
            THEN CollisionRate(risk_args.N_objects, risk_locals.volume,
                               risk_args.V_rel, risk_args.A_effective,
                               FMul(risk_args.T_years, SEC_PER_YEAR))
            ELSE CollisionRate(risk_args.N_objects, risk_locals.volume,
                               risk_args.V_rel,
                               FDiv(risk_args.A_rocket, FromInt(1000000)),
                               risk_args.T_seconds)
\* an estimator has returned from a positive volume with a non-zero rate
C9_Witness ==
    /\ risk_pc = "returned" /\ FLt(Zero, risk_locals.volume)
    /\ risk_locals.expected_collisions # Zero

\* every required parameter of the request is a valid number (the date a
\* valid date), and every optional one given is a valid number
ValidRequest(req) ==
    LET required == IF req.path = "/orbit_risk" THEN OrbitNames ELSE TakeoffNames
    IN  /\ \A i \in 1..Len(required) :
               /\ req.args[required[i]].present
               /\ IF required[i] = "date"
                  THEN StrptimeAccepts(req.args["date"].text)
                  ELSE PyFloat(req.args[required[i]].text).exc = "none"
        /\ \A n \in DOMAIN req.args :
               req.args[n].present => n = "date" \/ PyFloat(req.args[n].text).exc = "none"

\* C10: a GET to /orbit_risk or /takeoff_risk with every required parameter
\* a valid number is answered 200 with a body that has both financial_risk
\* and collision_risk, whatever number of objects the aggregation finds.
C10_ValidRequestAnswered ==
    api_pc = "responded" /\ ValidRequest(request) =>
        /\ response.status = 200
        /\ response.body.type = "dict"
        /\ {"financial_risk", "collision_risk"} \subseteq DOMAIN response.body.value
\* a handler has answered a valid request with two records at hand
C10_Witness ==
    api_pc = "responded" /\ ValidRequest(request) /\ Len(all_objects) = 2

\* the required names of a request in the handler's read order, the position
\* of the first one missing (0 when none is), and whether every name read
\* before a position is a valid number (the date is read as text)
RequiredNames(req) ==
    IF req.path = "/orbit_risk" THEN OrbitNames
    ELSE IF req.path = "/takeoff_risk" THEN TakeoffNames
    ELSE <<>>
FirstMissing(req) ==
    LET names == RequiredNames(req)
        missing == {i \in 1..Len(names) : ~req.args[names[i]].present}
    IN  IF missing = {} THEN 0
        ELSE CHOOSE i \in missing : \A j \in missing : i <= j
ValidBefore(req, i) ==
    \A j \in 1..(i - 1) :
        LET n == RequiredNames(req)[j]
        IN  n = "date" \/ PyFloat(req.args[n].text).exc = "none"

\* C11 (as stated): when a required parameter is absent the answer is 400
\* with a message that names the first missing parameter of the read order.
C11_FirstMissingNamed ==
    api_pc = "responded" /\ FirstMissing(request) # 0 =>
        response = MissingParameter(RequiredNames(request)[FirstMissing(request)])
\* C11 (amended): when a required parameter is absent the answer is 400; the
\* message names the first missing parameter when every required parameter
\* read before it is a valid number, and is the invalid-type message when
\* one of those is not.
C11_FirstReadErrorReported ==
    api_pc = "responded" /\ FirstMissing(request) # 0 =>
        /\ response.status = 400
        /\ response =
               IF ValidBefore(request, FirstMissing(request))
               THEN MissingParameter(RequiredNames(request)[FirstMissing(request)])
               ELSE InvalidParameter
\* a handler has answered a request in which two required parameters are
\* missing, the first after a valid one
C11_Witness ==
    /\ api_pc = "responded"
    /\ FirstMissing(request) > 1
    /\ ValidBefore(request, FirstMissing(request))
    /\ \E i \in (FirstMissing(request) + 1)..Len(RequiredNames(request)) :
           ~request.args[RequiredNames(request)[i]].present
    /\ response.status = 400

\* C12: the application answers GET /health with status 200 and the body
\* {"status": "OK"}.
C12_HealthAnswered ==
    api_pc = "responded" /\ request.path = "/health" =>
        response = Json(PyDict([status |-> "OK"]), 200)
\* the application has answered GET /health
C12_Witness ==
    api_pc = "responded" /\ request.path = "/health"

\* C13: every batch get_all_trackable_objects returns holds records of one
\* fetch generation only, also when two calls overlap and one of them
\* rewrites the cache file while the other reads it.
SingleGeneration(batch) ==
    \A i, j \in 1..Len(batch) :
        batch[i].gens = batch[j].gens /\ Cardinality(batch[i].gens) = 1

C13_SingleGeneration ==
    \A p \in Procs :
        calls[p].pc = "returned" => SingleGeneration(calls[p].result)

\* with no call in progress, a call has returned from the cache, without a
\* request, a batch of the full length that holds records of fetch 0,
\* records of fetch 1 and a record with values of both: it read the file
\* fetch 0 had left while the other caller rewrote it
C13_Witness ==
    /\ \A q \in Procs : calls[q].pc \in {"idle", "returned"}
    /\ \E p \in Procs :
           LET batch == calls[p].result
           IN  /\ calls[p].pc = "returned" /\ calls[p].hit
               /\ calls[p].requests = 0
               /\ Len(batch) = NumCategories * PerCategory
               /\ \E i, j, k \in 1..Len(batch) :
                      /\ batch[i].gens = {0}
                      /\ batch[j].gens = {1}
                      /\ batch[k].gens = {0, 1}

\* C16: a call that finds a readable cache file whose timestamp is less
\* than 4 hours old returns the cached batch, makes no request and leaves
\* the file as it was; every other call (no file, a file that cannot be
\* read or is incomplete, an age of 4 hours or more) requests every
\* category and overwrites the cache with the batch it obtained and the
\* time of the write, also when requests failed.
UsableCache(cache_data, now) ==
    /\ cache_data.exc = "none" /\ ~cache_data.aware /\ cache_data.has_data
    /\ Within(now, Instant(cache_data.ts, cache_data.frac))

FreshCache(c) ==
    /\ c.file0.exists /\ c.file0.opens
    /\ UsableCache(LoadJson(c.file0.extents), c.now)

C16_TimeToLive ==
    LET c == calls[1]
    IN  c.pc \in {"returned", "raised"} =>
            /\ c.pc = "returned"
            /\ IF FreshCache(c)
               THEN /\ c.result = LoadJson(c.file0.extents).data
                    /\ c.requests = 0
                    /\ cache_file = c.file0
               ELSE /\ c.requests = NumCategories
                    /\ \A i \in 1..Len(c.result) : c.result[i].gens = {c.gen}
                    /\ \E ts \in Instants :
                           /\ NotAfter(c.t_call, ts) /\ NotAfter(ts, clock)
                           /\ cache_file =
                                  Whole(Document(ts.hour, ts.frac, c.gen,
                                                 c.result))

\* a call that found the cache file holding [] has ended with the
\* TypeError of line 21: no request was made and the file is as it was
C16_Witness ==
    /\ calls[1].pc = "raised" /\ calls[1].exc = "TypeError"
    /\ calls[1].file0 = Whole(Foreign("non_object", 0))
    /\ calls[1].requests = 0 /\ net_gen = 0
    /\ cache_file = calls[1].file0

\* C14: the aggregator keeps a usable record if and only if
\* mm(max_altitude) <= mean_motion <= mm(min_altitude) and min_inclination
\* <= inclination <= max_inclination, the four bounds included, where mm
\* is the altitude-to-mean-motion conversion; a window whose mean-motion
\* span mm(min_altitude) - mm(max_altitude) is zero or negative keeps
\* nothing and yields the empty map without an error.
\* mm(altitude): of the outcomes of the conversion the one the call has
\* seen, seen being what the aggregator's conversion of the altitude gave
MeanMotionAt(altitude_km, seen) ==
    LET outcomes == {r.val : r \in altitude_to_mean_motion(altitude_km)}
    IN  IF seen \in outcomes THEN seen ELSE CHOOSE v \in outcomes : TRUE
LowerBound(win) == MeanMotionAt(win.max_altitude_km, filters.min_mean_motion_filter)
UpperBound(win) == MeanMotionAt(win.min_altitude_km, filters.max_mean_motion_filter)

WithinBounds(r, win) ==
    /\ FLe(LowerBound(win), r.mean_motion)
    /\ FLe(r.mean_motion, UpperBound(win))
    /\ FLe(win.min_inclination, r.inclination)
    /\ FLe(r.inclination, win.max_inclination)

NoSpan(win) == FLe(UpperBound(win), LowerBound(win))

C14_KeptIffWithinBounds ==
    [][/\ (/\ agg_pc = "loop" /\ agg_idx' = agg_idx + 1
            /\ Usable(tle_data_dicts[agg_idx]))
           => ((congestion_map' # congestion_map)
                  <=> WithinBounds(tle_data_dicts[agg_idx], window))
       /\ (agg_pc = "loop" /\ agg_pc' = "done" /\ NoSpan(window))
           => agg_return' = PyDict(EmptyMap)]_vars

\* a call with a window that starts at altitude 0 has returned a map in
\* which a usable record is counted
C14_Witness ==
    /\ agg_pc = "done"
    /\ window.min_altitude_km = Zero
    /\ agg_return.type = "dict" /\ agg_return.value # EmptyMap
    /\ \E i \in 1..Len(tle_data_dicts) : Usable(tle_data_dicts[i])

\* the key of the cell a record is binned to
CellKey(r) == <<PyRound(r.mean_motion, 1), PyRoundInt(r.inclination).val>>

\* the positions, among the first n of the batch, of the records the pass
\* kept and binned to key k
BinnedTo(k, n) ==
    {i \in 1..n :
        /\ tle_data_dicts[i].line1 # "None" /\ tle_data_dicts[i].line2 # "None"
        /\ tle_data_dicts[i].sat = "ok"
        /\ InWindow(filters, window, tle_data_dicts[i].mean_motion,
                    tle_data_dicts[i].inclination)
        /\ CellKey(tle_data_dicts[i]) = k}

\* a + b of two finite values without rounding: s * M * 2^E with M of any
\* size
ExactSigned(sa, A, sb, Bm, E, c) ==
    IF sa = sb THEN Canon(sa, BAdd(A, Bm), E)
    ELSE IF c = 0 THEN Zero
    ELSE IF c > 0 THEN Canon(sa, BSub(A, Bm), E)
    ELSE Canon(sb, BSub(Bm, A), E)
ExactAligned(sa, A, sb, Bm, E) == ExactSigned(sa, A, sb, Bm, E, BCmp(A, Bm))
ExactAdd(a, b) ==
    IF a[1] = 0 THEN b ELSE IF b[1] = 0 THEN a
    ELSE ExactAligned(a[1], BShl(a[2], a[3] - Min(a[3], b[3])),
                      b[1], BShl(b[2], b[3] - Min(a[3], b[3])), Min(a[3], b[3]))
\* the sum of the samples at the positions S, exactly
RECURSIVE ExactSum(_, _)
ExactSum(S, field) ==
    IF S = {} THEN Zero
    ELSE LET i == CHOOSE j \in S : TRUE
         IN  ExactAdd(tle_data_dicts[i][field], ExactSum(S \ {i}, field))
\* the arithmetic mean of the samples at the positions S: their exact sum
\* over their number, as the double nearest to it
ArithmeticMean(S, field) == FDiv(ExactSum(S, field), FromInt(Cardinality(S)))

\* C15: after each record is processed, every key of the congestion map has
\* count >= 1, its count is the number of kept records binned to it so far,
\* and its avg_inclination and avg_mean_motion are the arithmetic means of
\* the inclinations and mean motions of those records (the doubles the
\* running update leaves are within Tolerance of the exact means).
C15_CellInvariant ==
    agg_pc \in {"loop", "done"} =>
        \A k \in DOMAIN congestion_map :
            /\ congestion_map[k].count >= 1
            /\ congestion_map[k].count = Cardinality(BinnedTo(k, agg_idx - 1))
            /\ Close(congestion_map[k].avg_inclination,
                     ArithmeticMean(BinnedTo(k, agg_idx - 1), "inclination"))
            /\ Close(congestion_map[k].avg_mean_motion,
                     ArithmeticMean(BinnedTo(k, agg_idx - 1), "mean_motion"))

\* in the middle of a batch: a cell holds two records of different mean
\* motion and inclination, and a third record is still to come
C15_Witness ==
    /\ agg_pc = "loop" /\ agg_idx = Len(tle_data_dicts)
    /\ \E k \in DOMAIN congestion_map :
           /\ congestion_map[k].count = 2
           /\ \E i, j \in BinnedTo(k, agg_idx - 1) :
                  /\ tle_data_dicts[i].mean_motion # tle_data_dicts[j].mean_motion
                  /\ tle_data_dicts[i].inclination # tle_data_dicts[j].inclination

=============================================================================
